---------------------------- MODULE Spec2Model ----------------------------
(* A model of the provider dispatch and voice resolution core of            *)
(* matilda-voice.  Python strings are modelled as sequences of one-character *)
(* strings, so that splitting, prefix, suffix and substring tests are        *)
(* computed the way the code computes them.                                  *)
EXTENDS Integers, Sequences, FiniteSets, TLC

VARIABLES
    voice_str,      \* argument of parse_voice_setting
    parsed,         \* what parse_voice_setting returned (NotCalled before the call)
    args,           \* argument list of parse_provider_shortcuts
    shortcut_out,   \* what parse_provider_shortcuts returned (NotCalled before)
    providers_registry, \* the module-level dict registry.PROVIDERS_REGISTRY
    provider_shortcuts, \* the module-level dict registry.PROVIDER_SHORTCUTS
    request,        \* arguments of the api.speak / api.save_audio call
    default_provider,   \* the configured "default_provider"
    dispatched,     \* what synthesize_text did with the request (NotCalled before)
    loaded,         \* the engine's provider-instance cache: (key, instance) pairs
    cache_lock,     \* the thread holding the cache's lock, or None
    caller,         \* per thread: where it is in its use of a provider
    instances,      \* every backend instance constructed so far
    raced,          \* history: keys whose first use was concurrent
    audio_available,    \* check_audio_environment()["available"]
    tempfiles,      \* the temporary files on disk: [name, owner] records
    stream_req,     \* per stream request: where the synthesize call is
    audio_env_cache, \* audio_utils._AUDIO_ENV_CACHE: None or the cached probe result
    device_present, \* whether a playback device is reachable right now
    probe_call, \* per caller: where its check_audio_environment call is
    probe_history, \* history: the finished check_audio_environment calls
    status_code, \* argument of map_http_error
    mapped, \* what map_http_error returned (NotCalled before the call)
    backend_call, \* arguments and surroundings of one provider.synthesize call
    backend_out, \* how that call ended (NotCalled before the call)
    voices_cache, \* AzureTTSProvider._voices_cache: None or the list of voice names
    info_config, \* whether the Azure API key and endpoint are configured
    info_out, \* how the last get_info call ended (NotCalled before the first)
    info_calls, \* the number of get_info calls made
    analyze_args, \* arguments of analyze_voice: provider and voice
    analysis, \* what analyze_voice returned (NotCalled before the call)
    router, \* app.router: the routes create_app registered, in order
    advertised, \* the endpoints run_server printed at startup
    http_request, \* the last request the server received
    http_response, \* how it was answered (NotCalled before the first)
    served, \* the number of requests answered
    executors, \* the two thread pools: per pool, the queued and the running jobs
    tmp_dir, \* the temp files of handle_synthesize on disk: [name, owner] records
    synth_req, \* per /synthesize request: where its handler is
    api_body, \* the JSON body of a /speak or /synthesize request, and which of the two
    hook_call, \* the text and options the handler passes to on_speak / on_save
    tts_engine, \* the module-level engine of core.py: 0 (none) or the engine stored last
    engines_made, \* how many engines initialize_tts_engine has constructed
    handed_out, \* history: the engines get_engine has returned
    engine_thread \* per thread: where it is in get_engine

resolver_vars == <<voice_str, parsed>>
shortcut_vars == <<args, shortcut_out>>
\* The two tables are never assigned after import.
tables == <<providers_registry, provider_shortcuts>>
dispatch_vars == <<request, default_provider, dispatched>>

cache_vars == <<loaded, cache_lock, caller, instances, raced>>

stream_vars == <<audio_available, tempfiles, stream_req>>

probe_vars == <<audio_env_cache, device_present, probe_call, probe_history>>

http_vars == <<status_code, mapped>>

backend_vars == <<backend_call, backend_out>>

info_vars == <<voices_cache, info_config, info_out, info_calls>>

analyzer_vars == <<analyze_args, analysis>>

routes_vars == <<router, advertised, http_request, http_response, served>>

server_vars == <<executors, tmp_dir, synth_req>>

hook_vars == <<api_body, hook_call>>

engine_vars == <<tts_engine, engines_made, handed_out, engine_thread>>

vars == <<resolver_vars, shortcut_vars, tables, dispatch_vars, cache_vars,
          stream_vars, probe_vars, http_vars, backend_vars, info_vars,
          analyzer_vars, routes_vars, server_vars, hook_vars, engine_vars>>

\* What each part of the model leaves alone.
other_than_resolver ==
    <<shortcut_vars, tables, dispatch_vars, cache_vars, stream_vars,
          probe_vars, http_vars, backend_vars, info_vars, analyzer_vars,
          routes_vars, server_vars, hook_vars, engine_vars>>
other_than_shortcut ==
    <<resolver_vars, tables, dispatch_vars, cache_vars, stream_vars,
          probe_vars, http_vars, backend_vars, info_vars, analyzer_vars,
          routes_vars, server_vars, hook_vars, engine_vars>>
other_than_dispatch ==
    <<resolver_vars, shortcut_vars, tables, cache_vars, stream_vars,
          probe_vars, http_vars, backend_vars, info_vars, analyzer_vars,
          routes_vars, server_vars, hook_vars, engine_vars>>
other_than_cache ==
    <<resolver_vars, shortcut_vars, tables, dispatch_vars, stream_vars,
          probe_vars, http_vars, backend_vars, info_vars, analyzer_vars,
          routes_vars, server_vars, hook_vars, engine_vars>>
other_than_stream ==
    <<resolver_vars, shortcut_vars, tables, dispatch_vars, cache_vars,
          probe_vars, http_vars, backend_vars, info_vars, analyzer_vars,
          routes_vars, server_vars, hook_vars, engine_vars>>
other_than_probe ==
    <<resolver_vars, shortcut_vars, tables, dispatch_vars, cache_vars,
          stream_vars, http_vars, backend_vars, info_vars, analyzer_vars,
          routes_vars, server_vars, hook_vars, engine_vars>>
other_than_http ==
    <<resolver_vars, shortcut_vars, tables, dispatch_vars, cache_vars,
          stream_vars, probe_vars, backend_vars, info_vars, analyzer_vars,
          routes_vars, server_vars, hook_vars, engine_vars>>
other_than_backend ==
    <<resolver_vars, shortcut_vars, tables, dispatch_vars, cache_vars,
          stream_vars, probe_vars, http_vars, info_vars, analyzer_vars,
          routes_vars, server_vars, hook_vars, engine_vars>>
other_than_info ==
    <<resolver_vars, shortcut_vars, tables, dispatch_vars, cache_vars,
          stream_vars, probe_vars, http_vars, backend_vars, analyzer_vars,
          routes_vars, server_vars, hook_vars, engine_vars>>
other_than_analyzer ==
    <<resolver_vars, shortcut_vars, tables, dispatch_vars, cache_vars,
          stream_vars, probe_vars, http_vars, backend_vars, info_vars,
          routes_vars, server_vars, hook_vars, engine_vars>>
other_than_routes ==
    <<resolver_vars, shortcut_vars, tables, dispatch_vars, cache_vars,
          stream_vars, probe_vars, http_vars, backend_vars, info_vars,
          analyzer_vars, server_vars, hook_vars, engine_vars>>
other_than_server ==
    <<resolver_vars, shortcut_vars, tables, dispatch_vars, cache_vars,
          stream_vars, probe_vars, http_vars, backend_vars, info_vars,
          analyzer_vars, routes_vars, hook_vars, engine_vars>>
other_than_hook ==
    <<resolver_vars, shortcut_vars, tables, dispatch_vars, cache_vars,
          stream_vars, probe_vars, http_vars, backend_vars, info_vars,
          analyzer_vars, routes_vars, server_vars, engine_vars>>
other_than_engine ==
    <<resolver_vars, shortcut_vars, tables, dispatch_vars, cache_vars,
          stream_vars, probe_vars, http_vars, backend_vars, info_vars,
          analyzer_vars, routes_vars, server_vars, hook_vars>>

---------------------------------------------------------------------------
(* Python values *)

\* Python's None: a value different from every string (no character is
\* four letters long).
None == <<"None">>

\* The state of an output variable before its call has run.
NotCalled == [raised |-> "NotCalled"]

\* The empty str.
EmptyStr == <<>>

---------------------------------------------------------------------------
(* str operations *)

\* sub in s
Contains(s, sub) ==
    \E i \in 0..(Len(s) - Len(sub)) : SubSeq(s, i + 1, i + Len(sub)) = sub

\* s.startswith(p)
StartsWith(s, p) ==
    Len(p) <= Len(s) /\ SubSeq(s, 1, Len(p)) = p

\* s.endswith(p)
EndsWith(s, p) ==
    Len(p) <= Len(s) /\ SubSeq(s, Len(s) - Len(p) + 1, Len(s)) = p

\* s.startswith(tuple) / s.endswith(tuple)
StartsWithAny(s, ps) == \E p \in ps : StartsWith(s, p)
EndsWithAny(s, ps) == \E p \in ps : EndsWith(s, p)

\* s.rsplit(c, 1) for a one-character separator that occurs in s: splits at
\* the LAST occurrence (what split(c, 1) must not do).
split_once_last(s, c) ==
    LET i == CHOOSE k \in 1..Len(s) :
                 s[k] = c /\ \A j \in (k + 1)..Len(s) : s[j] # c
    IN  <<SubSeq(s, 1, i - 1), SubSeq(s, i + 1, Len(s))>>

\* s.split(c, 1) for a one-character separator that occurs in s: the text
\* before the first occurrence and the text after it.
split_once(s, c) ==
    LET i == CHOOSE k \in 1..Len(s) :
                 s[k] = c /\ \A j \in 1..(k - 1) : s[j] # c
    IN  <<SubSeq(s, 1, i - 1), SubSeq(s, i + 1, Len(s))>>

\* len(s.split(c)) for a one-character separator: one more than the number
\* of occurrences of c.
split_len(s, c) == Cardinality({k \in 1..Len(s) : s[k] = c}) + 1

RECURSIVE Flatten(_)
\* "".join(parts)
Flatten(parts) ==
    IF parts = <<>> THEN <<>> ELSE Head(parts) \o Flatten(Tail(parts))

---------------------------------------------------------------------------
(* String literals of the source *)

s_azure_tts == <<"a", "z", "u", "r", "e", "_", "t", "t", "s">>
s_edge_tts == <<"e", "d", "g", "e", "_", "t", "t", "s">>
s_openai_tts == <<"o", "p", "e", "n", "a", "i", "_", "t", "t", "s">>
s_elevenlabs == <<"e", "l", "e", "v", "e", "n", "l", "a", "b", "s">>
s_google_tts == <<"g", "o", "o", "g", "l", "e", "_", "t", "t", "s">>
s_chatterbox == <<"c", "h", "a", "t", "t", "e", "r", "b", "o", "x">>
s_coqui == <<"c", "o", "q", "u", "i">>
s_system == <<"s", "y", "s", "t", "e", "m">>
s_hub == <<"h", "u", "b">>
s_azure == <<"a", "z", "u", "r", "e">>
s_edge == <<"e", "d", "g", "e">>
s_openai == <<"o", "p", "e", "n", "a", "i">>
s_google == <<"g", "o", "o", "g", "l", "e">>

s_Neural == <<"N", "e", "u", "r", "a", "l">>
s_Neural2 == <<"N", "e", "u", "r", "a", "l", "2">>
s_Wavenet == <<"W", "a", "v", "e", "n", "e", "t">>
s_alloy == <<"a", "l", "l", "o", "y">>
s_rachel == <<"r", "a", "c", "h", "e", "l">>
s_wav == <<".", "w", "a", "v">>

\* (".wav", ".mp3", ".flac", ".ogg", ".m4a")
AUDIO_EXTENSIONS ==
    { s_wav,
      <<".", "m", "p", "3">>,
      <<".", "f", "l", "a", "c">>,
      <<".", "o", "g", "g">>,
      <<".", "m", "4", "a">> }

\* ["alloy", "echo", "fable", "nova", "onyx", "shimmer"]
OPENAI_VOICES ==
    { s_alloy,
      <<"e", "c", "h", "o">>,
      <<"f", "a", "b", "l", "e">>,
      <<"n", "o", "v", "a">>,
      <<"o", "n", "y", "x">>,
      <<"s", "h", "i", "m", "m", "e", "r">> }

\* ("en-", "es-", "fr-", "de-", "it-", "pt-", "ja-", "ko-", "zh-")
GOOGLE_PREFIXES ==
    { <<"e", "n", "-">>, <<"e", "s", "-">>, <<"f", "r", "-">>,
      <<"d", "e", "-">>, <<"i", "t", "-">>, <<"p", "t", "-">>,
      <<"j", "a", "-">>, <<"k", "o", "-">>, <<"z", "h", "-">> }

\* ["rachel", "domi", "bella", "antoni", "elli", "josh", "arnold", "adam", "sam"]
ELEVENLABS_VOICES ==
    { s_rachel,
      <<"d", "o", "m", "i">>,
      <<"b", "e", "l", "l", "a">>,
      <<"a", "n", "t", "o", "n", "i">>,
      <<"e", "l", "l", "i">>,
      <<"j", "o", "s", "h">>,
      <<"a", "r", "n", "o", "l", "d">>,
      <<"a", "d", "a", "m">>,
      <<"s", "a", "m">> }

\* ("en-", "es-", "fr-", "de-", "it-", "pt-", "ru-", "ja-", "ko-", "zh-")
EDGE_PREFIXES ==
    { <<"e", "n", "-">>, <<"e", "s", "-">>, <<"f", "r", "-">>,
      <<"d", "e", "-">>, <<"i", "t", "-">>, <<"p", "t", "-">>,
      <<"r", "u", "-">>,
      <<"j", "a", "-">>, <<"k", "o", "-">>, <<"z", "h", "-">> }

---------------------------------------------------------------------------
(* registry.py: the literals the two tables are built from.  A dict is  *)
(* the set of its (key, value) pairs.                                      *)

PROVIDERS_REGISTRY ==
    { <<s_azure_tts, "matilda_voice.providers.azure_tts">>,
      <<s_edge_tts, "matilda_voice.providers.edge_tts">>,
      <<s_openai_tts, "matilda_voice.providers.openai_tts">>,
      <<s_elevenlabs, "matilda_voice.providers.elevenlabs">>,
      <<s_google_tts, "matilda_voice.providers.google_tts">>,
      <<s_chatterbox, "matilda_voice.providers.chatterbox">>,
      <<s_coqui, "matilda_voice.providers.coqui">>,
      <<s_system, "matilda_voice.providers.system">>,
      <<s_hub, "matilda_voice.providers.hub">> }

\* The shortcut table with the alias "openai" left pointing at the bare
\* vendor name and "edge" pointing at the Azure backend.
PROVIDER_SHORTCUTS_stale ==
    { <<s_azure, s_azure_tts>>,
      <<s_edge, s_azure_tts>>,
      <<s_openai, s_openai>>,
      <<s_elevenlabs, s_elevenlabs>>,
      <<s_google, s_google_tts>>,
      <<s_chatterbox, s_chatterbox>>,
      <<s_coqui, s_coqui>>,
      <<s_system, s_system>>,
      <<s_hub, s_hub>> }

PROVIDER_SHORTCUTS ==
    { <<s_azure, s_azure_tts>>,
      <<s_edge, s_edge_tts>>,
      <<s_openai, s_openai_tts>>,
      <<s_elevenlabs, s_elevenlabs>>,
      <<s_google, s_google_tts>>,
      <<s_chatterbox, s_chatterbox>>,
      <<s_coqui, s_coqui>>,
      <<s_system, s_system>>,
      <<s_hub, s_hub>> }

\* k in d
DictKeys(d) == { kv[1] : kv \in d }

\* d[k], for a key of d
DictGet(d, k) == (CHOOSE kv \in d : kv[1] = k)[2]

---------------------------------------------------------------------------
(* parse_voice_setting (internal/config.py) *)

\* A returned (provider, voice) tuple.
Returned(provider, voice) ==
    [raised |-> "", provider |-> provider, voice |-> voice]

\* An exception leaving the function.
Raised(kind) == [raised |-> kind]

\* The path test without its extension half: "/" in voice_str only.
is_path_voice_slash_only(v) == Contains(v, <<"/">>)

\* "/" in voice_str or voice_str.endswith((".wav", ...))
is_path_voice(v) ==
    Contains(v, <<"/">>) \/ EndsWithAny(v, AUDIO_EXTENSIONS)

\* voice_str.startswith(GOOGLE_PREFIXES) and ("Neural2" in voice_str or "Wavenet" in voice_str)
is_google_voice(v) ==
    StartsWithAny(v, GOOGLE_PREFIXES)
        /\ (Contains(v, s_Neural2) \/ Contains(v, s_Wavenet))

\* "Neural" in voice_str or (len(voice_str.split("-")) >= 3 and voice_str.startswith(EDGE_PREFIXES))
is_edge_voice(v) ==
    Contains(v, s_Neural)
        \/ (split_len(v, "-") >= 3 /\ StartsWithAny(v, EDGE_PREFIXES))

\* parse_voice_setting with the neural-voice rule tried before the
\* Neural2/Wavenet rule.
parse_voice_setting_edge_first(v) ==
    IF v = None
    THEN Raised("TypeError")
    ELSE IF Contains(v, <<":">>)
    THEN LET pv == split_once(v, ":") IN Returned(pv[1], pv[2])
    ELSE IF is_path_voice(v) THEN Returned(s_chatterbox, v)
    ELSE IF v \in OPENAI_VOICES THEN Returned(s_openai, v)
    ELSE IF is_edge_voice(v) THEN Returned(s_edge_tts, v)
    ELSE IF is_google_voice(v) THEN Returned(s_google, v)
    ELSE IF v \in ELEVENLABS_VOICES THEN Returned(s_elevenlabs, v)
    ELSE Returned(None, v)

\* parse_voice_setting answering (None, None) when no rule matches.
parse_voice_setting_none_voice(v) ==
    IF v = None
    THEN Raised("TypeError")
    ELSE IF Contains(v, <<":">>)
    THEN LET pv == split_once(v, ":") IN Returned(pv[1], pv[2])
    ELSE IF is_path_voice(v) THEN Returned(s_chatterbox, v)
    ELSE IF v \in OPENAI_VOICES THEN Returned(s_openai, v)
    ELSE IF is_google_voice(v) THEN Returned(s_google, v)
    ELSE IF v \in ELEVENLABS_VOICES THEN Returned(s_elevenlabs, v)
    ELSE IF is_edge_voice(v) THEN Returned(s_edge_tts, v)
    ELSE Returned(None, None)

parse_voice_setting(v) ==
    IF v = None
    THEN Raised("TypeError")     \* ":" in None
    ELSE IF Contains(v, <<":">>)
    THEN LET pv == split_once(v, ":") IN Returned(pv[1], pv[2])
    ELSE IF is_path_voice(v) THEN Returned(s_chatterbox, v)
    ELSE IF v \in OPENAI_VOICES THEN Returned(s_openai, v)
    ELSE IF is_google_voice(v) THEN Returned(s_google, v)
    ELSE IF v \in ELEVENLABS_VOICES THEN Returned(s_elevenlabs, v)
    ELSE IF is_edge_voice(v) THEN Returned(s_edge_tts, v)
    ELSE Returned(None, v)

---------------------------------------------------------------------------
(* Bounded inputs of the resolver *)

\* Selectors are concatenations of at most MaxParts of these pieces.
MaxParts == 3

SelectorPieces ==
    { <<":">>, <<"/">>, <<"x">>, <<"2">>,
      s_wav, <<".", "m", "p", "3">>, <<".", "f", "l", "a", "c">>,
      <<".", "o", "g", "g">>, <<".", "m", "4", "a">>,
      s_alloy, s_rachel, s_alloy \o s_wav,
      <<"e", "n", "-">>, <<"r", "u", "-">>, <<"U", "S", "-">>,
      s_Neural, s_Wavenet }

Selectors ==
    { Flatten(p) : p \in UNION { [1..n -> SelectorPieces] : n \in 0..MaxParts } }

---------------------------------------------------------------------------
(* The parts of the program a specification does not exercise *)

ResolverIdle == voice_str = EmptyStr /\ parsed = NotCalled

ShortcutIdle == args = <<>> /\ shortcut_out = NotCalled

\* The tables as registry.py builds them at import.
TablesInit ==
    /\ providers_registry = PROVIDERS_REGISTRY
    /\ provider_shortcuts = PROVIDER_SHORTCUTS

\* "default_provider": "edge_tts"
CONFIG_DEFAULT_PROVIDER == s_edge_tts

DispatchIdle ==
    /\ request = [voice |-> None, provider |-> None]
    /\ default_provider = CONFIG_DEFAULT_PROVIDER
    /\ dispatched = NotCalled

\* The threads that use the engine.
Threads == {"t1", "t2"}

\* A thread that is not using the engine.
IdleCaller == [pc |-> "idle", key |-> None, instance |-> 0, raised |-> "", calls |-> 0]

CacheIdle ==
    /\ loaded = {}
    /\ cache_lock = None
    /\ caller = [t \in Threads |-> IdleCaller]
    /\ instances = {}
    /\ raced = {}

\* No stream request is in progress and no temporary file exists.
StreamIdle ==
    /\ audio_available = TRUE
    /\ tempfiles = {}
    /\ stream_req = <<>>

\* _AUDIO_ENV_CACHE = None: the empty cache, a value no probe returns.
NoAudioEnv == [reason |-> "None"]

\* The callers of the audio-environment probe.
ProbeCallers == {"c1", "c2"}

\* A caller with no check_audio_environment call in progress.
NoProbeCall == [pc |-> "idle", mode |-> "", force |-> FALSE, seen |-> NoAudioEnv]

\* The probe cache as the module is imported: empty, nobody calling.
ProbeIdle ==
    /\ audio_env_cache = NoAudioEnv
    /\ device_present = TRUE
    /\ probe_call = [c \in ProbeCallers |-> NoProbeCall]
    /\ probe_history = <<>>

\* No HTTP status is being mapped.
HttpIdle == status_code = 0 /\ mapped = NotCalled

\* No provider.synthesize call is set up.
NoBackendCall ==
    [backend |-> "", stream |-> FALSE, output_path |-> None,
     output_format |-> "", api_key |-> FALSE, endpoint |-> FALSE,
     available_engines |-> <<>>, device |-> FALSE]

BackendIdle == backend_call = NoBackendCall /\ backend_out = NotCalled

\* A new AzureTTSProvider on which get_info has not been called.
InfoIdle ==
    /\ voices_cache = None
    /\ info_config = [api_key |-> FALSE, endpoint |-> FALSE]
    /\ info_out = NotCalled
    /\ info_calls = 0

\* No voice is being analyzed.
AnalyzerIdle ==
    /\ analyze_args = [provider |-> EmptyStr, voice |-> EmptyStr]
    /\ analysis = NotCalled

\* The server has not been started and has received nothing.
NoHttpRequest == [method |-> "None"]
RoutesIdle ==
    /\ router = <<>>
    /\ advertised = {}
    /\ http_request = NoHttpRequest
    /\ http_response = NotCalled
    /\ served = 0

\* No /synthesize request has arrived; both pools are empty.
ServerIdle ==
    /\ executors = [e \in {"default", "io"} |-> [queue |-> <<>>, running |-> {}]]
    /\ tmp_dir = {}
    /\ synth_req = <<>>

\* No /speak or /synthesize body is being turned into hook arguments.
NoBody == [endpoint |-> "None"]
NoHookCall == [built |-> FALSE]
HookIdle ==
    /\ api_body = NoBody
    /\ hook_call = NoHookCall

\* No thread is in get_engine and no engine has been made.
EngineThreads == {"w1", "w2", "w3"}
EngineIdle ==
    /\ tts_engine = 0
    /\ engines_made = 0
    /\ handed_out = {}
    /\ engine_thread = [t \in EngineThreads |-> [pc |-> "idle", got |-> 0, calls |-> 0]]

---------------------------------------------------------------------------
(* Specification of the resolver: one call of parse_voice_setting *)

InitResolve ==
    /\ (voice_str \in Selectors \/ voice_str = None)
    /\ parsed = NotCalled
    /\ ShortcutIdle /\ TablesInit /\ DispatchIdle /\ CacheIdle
    /\ HookIdle /\ EngineIdle
    /\ RoutesIdle /\ ServerIdle
    /\ InfoIdle /\ AnalyzerIdle
    /\ HttpIdle /\ BackendIdle
    /\ StreamIdle /\ ProbeIdle

ParseVoiceSetting ==
    /\ parsed = NotCalled
    /\ parsed' = parse_voice_setting(voice_str)
    /\ UNCHANGED <<voice_str, other_than_resolver>>

NextResolve == ParseVoiceSetting

SpecResolve == InitResolve /\ [][NextResolve]_vars


---------------------------------------------------------------------------
(* Claims about the resolver (checked under SpecResolve) *)

ResolveCalled == parsed # NotCalled

\* The positions of character c in the selector.
Positions(s, c) == {k \in 1..Len(s) : s[k] = c}

HasColon(s) == s # None /\ Positions(s, ":") # {}

\* The text m occurs somewhere in s.
Occurs(s, m) ==
    \E i \in 1..(Len(s) - Len(m) + 1) : \A k \in 1..Len(m) : s[i + k - 1] = m[k]

\* The selector ends in one of the five audio extensions or holds a "/".
LooksLikePath(s) ==
    /\ s # None
    /\ \/ Positions(s, "/") # {}
       \/ \E e \in AUDIO_EXTENSIONS :
              /\ Len(s) >= Len(e)
              /\ \A k \in 1..Len(e) : s[Len(s) - Len(e) + k] = e[k]

\* C1: for every selector that contains a ':', parse_voice_setting returns
\* exactly (text before the first ':', text after the first ':'), whatever
\* the voice part looks like (path, audio extension, known short name).
C1_ExplicitPrefixSplitsOnFirstColon ==
    (ResolveCalled /\ HasColon(voice_str)) =>
        \E i \in Positions(voice_str, ":") :
            /\ \A j \in Positions(voice_str, ":") : i <= j
            /\ parsed.raised = ""
            /\ parsed.provider = SubSeq(voice_str, 1, i - 1)
            /\ parsed.voice = SubSeq(voice_str, i + 1, Len(voice_str))

\* C1 witness: "rachel:alloy.wav" was resolved: the voice part is a known
\* short name with an audio extension, the prefix is a known short name too,
\* and the result is still (prefix, voice part).
C1_Witness ==
    /\ voice_str = s_rachel \o <<":">> \o s_alloy \o s_wav
    /\ ResolveCalled
    /\ parsed.provider = s_rachel
    /\ parsed.voice = s_alloy \o s_wav

\* C2 as stated: every selector that ends in an audio extension or contains
\* '/' resolves to ("chatterbox", selector).
C2_Original_PathAlwaysChatterbox ==
    (ResolveCalled /\ LooksLikePath(voice_str)) =>
        /\ parsed.raised = ""
        /\ parsed.provider = s_chatterbox
        /\ parsed.voice = voice_str

\* C2 amended: every selector WITHOUT a ':' that ends in an audio extension
\* or contains '/' resolves to ("chatterbox", selector), selector unchanged.
C2_ColonFreePathIsChatterbox ==
    (ResolveCalled /\ LooksLikePath(voice_str) /\ ~HasColon(voice_str)) =>
        /\ parsed.raised = ""
        /\ parsed.provider = s_chatterbox
        /\ parsed.voice = voice_str

\* C2 witness: the colon-free selector "en-Neural.flac" (which also matches
\* the later neural-voice rule) was resolved to chatterbox.
C2_Witness ==
    /\ voice_str = <<"e", "n", "-">> \o s_Neural \o <<".", "f", "l", "a", "c">>
    /\ ResolveCalled
    /\ parsed.provider = s_chatterbox
    /\ parsed.voice = voice_str

\* The five auto-detection rules, in the claim's words.
RuleA(s) == LooksLikePath(s)
RuleB(s) == s \in OPENAI_VOICES
RuleC(s) ==
    /\ Len(s) >= 3 /\ SubSeq(s, 1, 3) \in GOOGLE_PREFIXES
    /\ \E m \in {s_Neural2, s_Wavenet} : Occurs(s, m)
RuleD(s) == s \in ELEVENLABS_VOICES
RuleE(s) ==
    \/ Occurs(s, s_Neural)
    \/ /\ Cardinality(Positions(s, "-")) >= 2
       /\ Len(s) >= 3 /\ SubSeq(s, 1, 3) \in EDGE_PREFIXES

\* The provider the first matching rule names, None when no rule matches.
FirstMatchProvider(s) ==
    CASE RuleA(s) -> s_chatterbox
      [] ~RuleA(s) /\ RuleB(s) -> s_openai
      [] ~RuleA(s) /\ ~RuleB(s) /\ RuleC(s) -> s_google
      [] ~RuleA(s) /\ ~RuleB(s) /\ ~RuleC(s) /\ RuleD(s) -> s_elevenlabs
      [] ~RuleA(s) /\ ~RuleB(s) /\ ~RuleC(s) /\ ~RuleD(s) /\ RuleE(s) -> s_edge_tts
      [] OTHER -> None

NoRuleMatches(s) ==
    ~RuleA(s) /\ ~RuleB(s) /\ ~RuleC(s) /\ ~RuleD(s) /\ ~RuleE(s)

\* C3: for a colon-free selector the rules are tried in the order a, b, c,
\* d, e; the first matching rule alone decides the provider; the provider is
\* None exactly when no rule matches; the voice is the selector unchanged.
C3_AutoDetectFirstMatchWins ==
    (ResolveCalled /\ voice_str # None /\ ~HasColon(voice_str)) =>
        /\ parsed.raised = ""
        /\ parsed.provider = FirstMatchProvider(voice_str)
        /\ (parsed.provider = None) <=> NoRuleMatches(voice_str)
        /\ parsed.voice = voice_str

\* C3 witness: "en-Neural2" matches rule c and rule e; rule c decided.
C3_Witness ==
    /\ voice_str = <<"e", "n", "-">> \o s_Neural2
    /\ ResolveCalled
    /\ RuleC(voice_str) /\ RuleE(voice_str)
    /\ parsed.provider = s_google

\* C4 as stated: an empty or absent selector resolves to (None, None)
\* without an error.
C4_Original_EmptyGivesNoneNone ==
    (ResolveCalled /\ voice_str \in {EmptyStr, None}) =>
        /\ parsed.raised = ""
        /\ parsed.provider = None
        /\ parsed.voice = None

\* C4 amended: an empty selector resolves to (None, ""): no provider, and
\* the voice is the empty selector itself; no rule matches and nothing is
\* raised.  An absent selector (None) is not accepted: TypeError.
C4_EmptyGivesNoProviderEmptyVoice ==
    /\ (ResolveCalled /\ voice_str = EmptyStr) =>
           /\ parsed.raised = ""
           /\ parsed.provider = None
           /\ parsed.voice = EmptyStr
           /\ NoRuleMatches(voice_str)
    /\ (ResolveCalled /\ voice_str = None) => parsed.raised = "TypeError"

\* C4 witness: the empty selector was resolved.
C4_Witness ==
    /\ voice_str = EmptyStr
    /\ ResolveCalled
    /\ parsed.raised = ""
    /\ parsed.voice = EmptyStr


\* C27: every provider other than None that auto-detection returns for a
\* colon-free selector is a key of PROVIDERS_REGISTRY.
C27_AutoDetectedProviderIsRegistryKey ==
    (/\ ResolveCalled
     /\ voice_str # None
     /\ ~HasColon(voice_str)
     /\ parsed.raised = ""
     /\ parsed.provider # None)
    => parsed.provider \in DictKeys(providers_registry)

---------------------------------------------------------------------------
(* parse_provider_shortcuts (hooks/utils.py) *)

\* A returned (provider, remaining arguments) tuple.
ShortcutReturned(provider, remaining) ==
    [raised |-> "", provider |-> provider, remaining |-> remaining]

\* parse_provider_shortcuts leaving the '@' token in the argument list.
parse_provider_shortcuts_keep_first(a) ==
    IF a = <<>>
    THEN ShortcutReturned(None, a)
    ELSE LET first_arg == a[1] IN
         IF StartsWith(first_arg, <<"@">>)
         THEN LET shortcut == Tail(first_arg) IN
              IF shortcut \in DictKeys(provider_shortcuts)
              THEN ShortcutReturned(DictGet(provider_shortcuts, shortcut), a)
              ELSE ShortcutReturned(first_arg, Tail(a))
         ELSE ShortcutReturned(None, a)

\* parse_provider_shortcuts treating an unknown '@' token as ordinary text.
parse_provider_shortcuts_unknown_as_text(a) ==
    IF a = <<>>
    THEN ShortcutReturned(None, a)
    ELSE LET first_arg == a[1] IN
         IF StartsWith(first_arg, <<"@">>)
         THEN LET shortcut == Tail(first_arg) IN
              IF shortcut \in DictKeys(provider_shortcuts)
              THEN ShortcutReturned(DictGet(provider_shortcuts, shortcut), Tail(a))
              ELSE ShortcutReturned(None, a)
         ELSE ShortcutReturned(None, a)

parse_provider_shortcuts(a) ==
    IF a = <<>>
    THEN ShortcutReturned(None, a)
    ELSE LET first_arg == a[1] IN
         IF StartsWith(first_arg, <<"@">>)
         THEN LET shortcut == Tail(first_arg) IN        \* first_arg[1:]
              IF shortcut \in DictKeys(provider_shortcuts)
              THEN ShortcutReturned(DictGet(provider_shortcuts, shortcut), Tail(a))
              ELSE ShortcutReturned(first_arg, Tail(a))
         ELSE ShortcutReturned(None, a)

---------------------------------------------------------------------------
(* Bounded inputs of the shortcut parser *)

\* Argument lists hold at most MaxArgs tokens.
MaxArgs == 2

s_hello == <<"h", "e", "l", "l", "o">>
s_nope == <<"n", "o", "p", "e">>

ArgTokens ==
    { <<"@">> \o kv[1] : kv \in PROVIDER_SHORTCUTS }
        \cup { <<"@">> \o s_nope, <<"@">>, <<"@">> \o s_azure_tts,
               <<"@", "@">> \o s_azure, s_hello, s_azure, EmptyStr }

ArgLists == UNION { [1..n -> ArgTokens] : n \in 0..MaxArgs }

---------------------------------------------------------------------------
(* Specification of the shortcut parser: one call *)

InitShortcut ==
    /\ args \in ArgLists
    /\ shortcut_out = NotCalled
    /\ ResolverIdle /\ TablesInit /\ DispatchIdle /\ CacheIdle
    /\ HookIdle /\ EngineIdle
    /\ RoutesIdle /\ ServerIdle
    /\ InfoIdle /\ AnalyzerIdle
    /\ HttpIdle /\ BackendIdle
    /\ StreamIdle /\ ProbeIdle

ParseProviderShortcuts ==
    /\ shortcut_out = NotCalled
    /\ shortcut_out' = parse_provider_shortcuts(args)
    /\ UNCHANGED <<args, other_than_shortcut>>

NextShortcut == ParseProviderShortcuts

SpecShortcut == InitShortcut /\ [][NextShortcut]_vars

---------------------------------------------------------------------------
(* Claims about the shortcut parser (checked under SpecShortcut) *)

ShortcutCalled == shortcut_out # NotCalled

\* The first token starts with '@'.
FirstIsAt == args # <<>> /\ args[1] # <<>> /\ args[1][1] = "@"

\* The first token is '@' followed by the alias of the pair kv.
FirstIsShortcut(kv) ==
    /\ FirstIsAt
    /\ Len(args[1]) = Len(kv[1]) + 1
    /\ \A k \in 1..Len(kv[1]) : args[1][k + 1] = kv[1][k]

\* The returned list is the argument list without its first token, order
\* and content kept.
RestKept ==
    /\ Len(shortcut_out.remaining) = Len(args) - 1
    /\ \A k \in 1..(Len(args) - 1) : shortcut_out.remaining[k] = args[k + 1]

C6_UnknownShortcutSignalled ==
    (ShortcutCalled /\ FirstIsAt /\ ~\E kv \in provider_shortcuts : FirstIsShortcut(kv)) =>
        /\ shortcut_out.provider = args[1]
        /\ shortcut_out.provider[1] = "@"
        /\ RestKept
        /\ shortcut_out.provider \notin DictKeys(providers_registry)

\* C6 witness: ["@nope", "hello"] gave ("@nope", ["hello"]).
C6_Witness ==
    /\ args = << <<"@">> \o s_nope, s_hello >>
    /\ ShortcutCalled
    /\ shortcut_out.provider = <<"@">> \o s_nope
    /\ shortcut_out.remaining = <<s_hello>>

\* C7: the shortcut table is a bijection onto the registry: no two aliases
\* share a canonical key, every alias maps to a registry key, and every
\* registry key is the image of some alias.
C7_ShortcutsBijectionOntoRegistry ==
    /\ \A a \in provider_shortcuts : \A b \in provider_shortcuts :
           (a[2] = b[2]) => (a[1] = b[1])
    /\ \A a \in provider_shortcuts : a[2] \in DictKeys(providers_registry)
    /\ \A k \in DictKeys(providers_registry) :
           \E a \in provider_shortcuts : a[2] = k

\* C7 witness: an alias whose key differs from it ("@openai") was resolved
\* to a key of the registry.
C7_Witness ==
    /\ args # <<>> /\ args[1] = <<"@">> \o s_openai
    /\ ShortcutCalled
    /\ shortcut_out.provider = s_openai_tts
    /\ shortcut_out.provider \in DictKeys(providers_registry)


---------------------------------------------------------------------------
(* TTSEngine.synthesize_text (core.py), as api.speak and api.save_audio   *)
(* call it.  core.py is not among the sources; the dispatch rule is       *)
(* modelled from the design of the Synthesis Engine: provider_name, else   *)
(* the provider the voice resolves to, else the configured default.        *)

\* What synthesize_text did: the provider key it chose, the voice and the
\* stream flag it forwarded to that backend, and the value it returned.
Dispatched(raised, provider, voice, stream, returns) ==
    [raised |-> raised, provider |-> provider, voice |-> voice,
     stream |-> stream, returns |-> returns]

\* An empty or absent voice resolves to no provider and no voice; any
\* other voice goes through parse_voice_setting.
resolve_voice(voice) ==
    IF voice \in {None, EmptyStr}
    THEN Returned(None, None)
    ELSE parse_voice_setting(voice)

\* synthesize_text letting the voice's provider override provider_name.
synthesize_text_voice_first(output_path, voice, provider_name, stream) ==
    LET resolved == resolve_voice(voice)
        effective ==
            IF resolved.provider # None THEN resolved.provider
            ELSE IF provider_name # None THEN provider_name
            ELSE default_provider
    IN  IF effective \notin DictKeys(providers_registry)
        THEN Dispatched("ConfigurationError", effective, resolved.voice, stream, None)
        ELSE Dispatched("", effective, resolved.voice, stream,
                        IF stream THEN None ELSE output_path)

synthesize_text(output_path, voice, provider_name, stream) ==
    LET resolved == resolve_voice(voice)
        effective ==
            IF provider_name # None THEN provider_name
            ELSE IF resolved.provider # None THEN resolved.provider
            ELSE default_provider
    IN  IF effective \notin DictKeys(providers_registry)
        THEN Dispatched("ConfigurationError", effective, resolved.voice, stream, None)
        ELSE Dispatched("", effective, resolved.voice, stream,
                        IF stream THEN None ELSE output_path)

---------------------------------------------------------------------------
(* Bounded inputs of the dispatcher *)

s_out_wav == <<"o", "u", "t">> \o s_wav

\* voice= arguments: absent, empty, explicit prefixes, and bare names that
\* each auto-detection rule decides, or none does.
DispatchVoices ==
    { None, EmptyStr,
      s_hub \o <<":", "x">>,
      s_coqui \o <<":">> \o s_alloy,
      <<"x">> \o s_wav,
      s_alloy,
      <<"e", "n", "-">> \o s_Neural2,
      s_rachel,
      <<"e", "n", "-">> \o s_Neural,
      <<"x">> }

\* provider= arguments: absent, two registry keys, one unknown key.
DispatchProviders == { None, s_hub, s_system, s_nope }

\* Values the configuration can hold for "default_provider".
DefaultProviders == { CONFIG_DEFAULT_PROVIDER, s_system }

---------------------------------------------------------------------------
(* Specification of the dispatcher: one call of api.speak or api.save_audio *)

InitDispatch ==
    /\ request \in [voice : DispatchVoices, provider : DispatchProviders]
    /\ default_provider \in DefaultProviders
    /\ dispatched = NotCalled
    /\ ResolverIdle /\ ShortcutIdle /\ TablesInit /\ CacheIdle
    /\ HookIdle /\ EngineIdle
    /\ RoutesIdle /\ ServerIdle
    /\ InfoIdle /\ AnalyzerIdle
    /\ HttpIdle /\ BackendIdle
    /\ StreamIdle /\ ProbeIdle

\* api.speak forgetting to pass its provider argument on.
Speak_drops_provider ==
    /\ dispatched = NotCalled
    /\ dispatched' = synthesize_text(None, request.voice, None, TRUE)
    /\ UNCHANGED <<request, default_provider, other_than_dispatch>>

\* api.speak(text, voice=..., provider=...)
Speak ==
    /\ dispatched = NotCalled
    /\ dispatched' = synthesize_text(None, request.voice, request.provider, TRUE)
    /\ UNCHANGED <<request, default_provider, other_than_dispatch>>

\* api.save_audio(text, output_path, voice=..., provider=...)
SaveAudio ==
    /\ dispatched = NotCalled
    /\ dispatched' = synthesize_text(s_out_wav, request.voice, request.provider, FALSE)
    /\ UNCHANGED <<request, default_provider, other_than_dispatch>>

NextDispatch == Speak \/ SaveAudio

SpecDispatch == InitDispatch /\ [][NextDispatch]_vars

---------------------------------------------------------------------------
(* Claims about the dispatcher (checked under SpecDispatch) *)

DispatchCalled == dispatched # NotCalled

\* The provider a voice selector implies: the text before its first ':',
\* else what the first matching auto-detection rule names, else None.
ImpliedProvider(voice) ==
    IF voice \in {None, EmptyStr} THEN None
    ELSE IF HasColon(voice)
    THEN LET i == CHOOSE k \in Positions(voice, ":") :
                      \A j \in Positions(voice, ":") : k <= j
         IN  SubSeq(voice, 1, i - 1)
    ELSE FirstMatchProvider(voice)

\* C8: the backend key is chosen by strict precedence: the explicit
\* provider_name when given; otherwise the provider the voice selector
\* implies (explicit prefix or auto-detection); otherwise, and only then,
\* the configured default provider.
C8_ProviderPrecedence ==
    DispatchCalled =>
        /\ (request.provider # None) => dispatched.provider = request.provider
        /\ (request.provider = None /\ ImpliedProvider(request.voice) # None) =>
               dispatched.provider = ImpliedProvider(request.voice)
        /\ (request.provider = None /\ ImpliedProvider(request.voice) = None) =>
               dispatched.provider = default_provider

\* C8 witness: provider="hub" was given together with the voice "coqui:alloy"
\* and the default "edge_tts", three different keys; hub was chosen.
C8_Witness ==
    /\ request = [voice |-> s_coqui \o <<":">> \o s_alloy, provider |-> s_hub]
    /\ default_provider = s_edge_tts
    /\ DispatchCalled
    /\ dispatched.raised = ""
    /\ dispatched.provider = s_hub


---------------------------------------------------------------------------
(* The engine's provider-instance cache (core.py, not among the sources). *)
(* Modelled from the design: a lazily populated cache, one instance per   *)
(* key, whose first construction of a backend runs under mutual exclusion; *)
(* an unknown key is a ConfigurationError; a backend whose construction    *)
(* fails is not cached and does not stop other backends from working.      *)

\* Each thread makes at most MaxCalls uses of a provider.
MaxCalls == 2

\* Keys the callers ask for: two registry keys and one unknown key.
CacheKeys == { s_hub, s_system, s_nope }

\* A thread starts using the provider with key k.
FirstUse(t, k) ==
    /\ caller[t].pc = "idle"
    /\ caller[t].calls < MaxCalls
    /\ caller' = [caller EXCEPT ![t] =
                     [pc |-> "acquire", key |-> k, instance |-> 0,
                      raised |-> "", calls |-> @.calls + 1]]
    /\ raced' = IF /\ k \notin DictKeys(loaded)
                   /\ \E u \in Threads \ {t} :
                          caller[u].pc # "idle" /\ caller[u].key = k
                THEN raced \cup {k}
                ELSE raced
    /\ UNCHANGED <<loaded, cache_lock, instances, other_than_cache>>

\* Entering the critical section without taking the lock.
Acquire_unlocked(t) ==
    /\ caller[t].pc = "acquire"
    /\ caller' = [caller EXCEPT ![t].pc = "locked"]
    /\ UNCHANGED <<loaded, cache_lock, instances, raced, other_than_cache>>

\* The thread takes the cache's lock; it waits while another holds it.
Acquire(t) ==
    /\ caller[t].pc = "acquire"
    /\ cache_lock = None
    /\ cache_lock' = <<t>>
    /\ caller' = [caller EXCEPT ![t].pc = "locked"]
    /\ UNCHANGED <<loaded, instances, raced, other_than_cache>>

\* Under the lock: a cached instance is reused; an unknown key raises; a
\* key not yet cached goes on to construction.
Lookup(t) ==
    /\ caller[t].pc = "locked"
    /\ LET c == caller[t] IN
       caller' = [caller EXCEPT ![t] =
           IF c.key \in DictKeys(loaded)
           THEN [c EXCEPT !.pc = "release", !.instance = DictGet(loaded, c.key)]
           ELSE IF c.key \notin DictKeys(providers_registry)
           THEN [c EXCEPT !.pc = "release", !.raised = "ConfigurationError"]
           ELSE [c EXCEPT !.pc = "construct"]]
    /\ UNCHANGED <<loaded, cache_lock, instances, raced, other_than_cache>>

\* The backend's constructor succeeds: a new instance, stored in the cache.
Construct(t) ==
    /\ caller[t].pc = "construct"
    /\ LET inst == Cardinality(instances) + 1 IN
           /\ instances' = instances \cup {[id |-> inst, key |-> caller[t].key]}
           /\ loaded' = {kv \in loaded : kv[1] # caller[t].key}
                            \cup {<<caller[t].key, inst>>}
           /\ caller' = [caller EXCEPT ![t].pc = "release", ![t].instance = inst]
    /\ UNCHANGED <<cache_lock, raced, other_than_cache>>

\* The backend's constructor raises (no credentials, no local binary):
\* nothing is cached.
ConstructFails(t) ==
    /\ caller[t].pc = "construct"
    /\ caller' = [caller EXCEPT ![t].pc = "release", ![t].raised = "ProviderError"]
    /\ UNCHANGED <<loaded, cache_lock, instances, raced, other_than_cache>>

\* Leaving the critical section, by return or by exception.
Release(t) ==
    /\ caller[t].pc = "release"
    /\ cache_lock' = IF cache_lock = <<t>> THEN None ELSE cache_lock
    /\ caller' = [caller EXCEPT ![t].pc = "idle"]
    /\ UNCHANGED <<loaded, instances, raced, other_than_cache>>

InitCache ==
    /\ CacheIdle
    /\ ResolverIdle /\ ShortcutIdle /\ TablesInit /\ DispatchIdle
    /\ HookIdle /\ EngineIdle
    /\ ServerIdle
    /\ RoutesIdle
    /\ InfoIdle /\ AnalyzerIdle
    /\ HttpIdle /\ BackendIdle
    /\ StreamIdle /\ ProbeIdle

NextCache ==
    \E t \in Threads :
        \/ \E k \in CacheKeys : FirstUse(t, k)
        \/ Acquire(t)
        \/ Lookup(t)
        \/ Construct(t)
        \/ ConstructFails(t)
        \/ Release(t)

SpecCache == InitCache /\ [][NextCache]_vars

---------------------------------------------------------------------------
(* Claims about the provider-instance cache (checked under SpecCache) *)

---------------------------------------------------------------------------
(* Stream delivery: AzureTTSProvider.synthesize(stream=True) and          *)
(* HubTTSProvider.synthesize(stream=True).  Both hand their own           *)
(* _synthesize_to_file to audio_utils.stream_via_tempfile; audio_utils.py *)
(* is not among the sources, so stream_via_tempfile is modelled from the  *)
(* design of the Streaming Delivery Adapter: create a uniquely named      *)
(* temporary file, synthesize into it, play it, and delete it on every    *)
(* exit path.                                                              *)

\* The number of concurrent stream requests.
MaxRequests == 2

Requests == 1..MaxRequests

\* The most chunks response.iter_bytes yields for one response.
MaxChunks == 2

\* Names the temp directory can hand out; a name is free when no file on
\* disk bears it.
TempNames == 1..(MaxRequests + 1)

\* A stream request that has not started: synthesize(text, None, stream=True)
\* on the given backend.
NewRequest(backend) ==
    [pc |-> "new", backend |-> backend, path |-> "", tmp |-> 0,
     pending |-> "", failed_at |-> "", played |-> FALSE, raised |-> "",
     probed |-> FALSE, rt_requested |-> FALSE, player |-> FALSE, fed |-> 0]

\* The four typed errors of the taxonomy.
TypedErrors ==
    {"ConfigurationError", "AuthenticationError", "NetworkError", "ProviderError"}

\* What AzureTTSProvider._synthesize_to_file can do with output_format "mp3":
\* write the file, or raise from _get_api_key, _get_endpoint, request_with_retry,
\* map_http_error, or open()/write().
AzureSynthesizeOutcomes ==
    {"ok", "AuthenticationError", "ConfigurationError", "NetworkError",
     "ProviderError", "OSError"}

\* What HubTTSProvider._synthesize_to_file can do: write the file, raise
\* ProviderError (error reply, missing audio), ValueError (base64) or OSError.
HubSynthesizeOutcomes == {"ok", "ProviderError", "ValueError", "OSError"}

SynthesizeOutcomes(backend) ==
    IF backend = "azure" THEN AzureSynthesizeOutcomes ELSE HubSynthesizeOutcomes

\* The exception that leaves synthesize when `kind` is raised inside it.
\* Azure re-raises the typed errors and maps OSError, ValueError and
\* RuntimeError to NetworkError or ProviderError by their message; Hub has
\* no handler.
Surfaced(backend, kind) ==
    IF backend = "azure" /\ kind \notin TypedErrors
    THEN {"NetworkError", "ProviderError"}
    ELSE {kind}

\* _stream_realtime going on to real-time streaming whatever the probe says.
AzureStreamRealtime_ignores_probe(r) ==
    /\ stream_req[r].pc = "new"
    /\ stream_req[r].backend = "azure"
    /\ stream_req' = [stream_req EXCEPT ![r].pc = "realtime", ![r].path = "realtime",
                                        ![r].probed = TRUE]
    /\ UNCHANGED <<audio_available, tempfiles, other_than_stream>>

\* AzureTTSProvider._stream_realtime, its first two lines: probe the audio
\* environment; no device means the temp-file fallback.
AzureStreamRealtime(r) ==
    /\ stream_req[r].pc = "new"
    /\ stream_req[r].backend = "azure"
    /\ stream_req' = [stream_req EXCEPT
           ![r].pc = IF audio_available THEN "realtime" ELSE "create",
           ![r].path = IF audio_available THEN "realtime" ELSE "tempfile",
           ![r].probed = TRUE]
    /\ UNCHANGED <<audio_available, tempfiles, other_than_stream>>

\* What _request_audio followed by the status test can do: a 200 response,
\* or raise from _get_api_key, _get_endpoint, request_with_retry or
\* map_http_error.
AzureRequestOutcomes ==
    {"ok", "AuthenticationError", "ConfigurationError", "NetworkError",
     "ProviderError"}

\* The device branch written so that the response is first saved through
\* the temporary-file path and played from there.
AzureRequestAudio_buffers_to_file(r) ==
    /\ stream_req[r].pc = "realtime"
    /\ stream_req' = [stream_req EXCEPT ![r].pc = "create", ![r].rt_requested = TRUE]
    /\ UNCHANGED <<audio_available, tempfiles, other_than_stream>>

\* AzureTTSProvider._stream_realtime with a device: _request_audio(ssml,
\* "mp3") and the status test; a 200 response goes on to the player, any
\* failure leaves synthesize.
AzureRequestAudio(r) ==
    /\ stream_req[r].pc = "realtime"
    /\ \E outcome \in AzureRequestOutcomes :
           \E kind \in Surfaced("azure", outcome) :
               stream_req' = [stream_req EXCEPT
                   ![r].pc = IF outcome = "ok" THEN "player" ELSE "raised",
                   ![r].rt_requested = TRUE,
                   ![r].raised = IF outcome = "ok" THEN "" ELSE kind]
    /\ UNCHANGED <<audio_available, tempfiles, other_than_stream>>

\* StreamingPlayer(provider_name="Azure TTS", format_args=["-f", "mp3"]):
\* the local audio output process is started.
StartStreamingPlayer(r) ==
    /\ stream_req[r].pc = "player"
    /\ stream_req' = [stream_req EXCEPT ![r].pc = "playing", ![r].player = TRUE]
    /\ UNCHANGED <<audio_available, tempfiles, other_than_stream>>

\* player.play_chunks(response.iter_bytes(...)): the next chunk of the
\* response is handed to the running player.
FeedChunk(r) ==
    /\ stream_req[r].pc = "playing"
    /\ stream_req[r].fed < MaxChunks
    /\ stream_req' = [stream_req EXCEPT ![r].fed = @ + 1]
    /\ UNCHANGED <<audio_available, tempfiles, other_than_stream>>

\* play_chunks ends: the iterator is exhausted and the call returns, or the
\* player fails and its exception leaves synthesize.
EndPlayChunks(r) ==
    /\ stream_req[r].pc = "playing"
    /\ \E outcome \in {"ok", "ProviderError", "RuntimeError"} :
           \E kind \in Surfaced("azure", outcome) :
               stream_req' = [stream_req EXCEPT
                   ![r].pc = IF outcome = "ok" THEN "returned" ELSE "raised",
                   ![r].played = (outcome = "ok"),
                   ![r].raised = IF outcome = "ok" THEN "" ELSE kind]
    /\ UNCHANGED <<audio_available, tempfiles, other_than_stream>>

\* HubTTSProvider.synthesize with stream: always stream_via_tempfile.
HubSynthesizeStream(r) ==
    /\ stream_req[r].pc = "new"
    /\ stream_req[r].backend = "hub"
    /\ stream_req' = [stream_req EXCEPT ![r].pc = "create", ![r].path = "tempfile"]
    /\ UNCHANGED <<audio_available, tempfiles, other_than_stream>>

\* stream_via_tempfile: the temporary file is created under a name no file
\* on disk bears.
CreateTempFile(r) ==
    /\ stream_req[r].pc = "create"
    /\ \E n \in TempNames \ {f.name : f \in tempfiles} :
           /\ tempfiles' = tempfiles \cup {[name |-> n, owner |-> r]}
           /\ stream_req' = [stream_req EXCEPT ![r].pc = "synth", ![r].tmp = n]
    /\ UNCHANGED <<audio_available, other_than_stream>>

\* stream_via_tempfile: synthesize_func(text, tmp_path, ...), the backend's
\* own _synthesize_to_file.
SynthesizeToTempFile(r) ==
    /\ stream_req[r].pc = "synth"
    /\ \E outcome \in SynthesizeOutcomes(stream_req[r].backend) :
           stream_req' = [stream_req EXCEPT ![r] =
               IF outcome = "ok"
               THEN [@ EXCEPT !.pc = "play"]
               ELSE [@ EXCEPT !.pc = "cleanup", !.pending = outcome,
                              !.failed_at = "synthesis"]]
    /\ UNCHANGED <<audio_available, tempfiles, other_than_stream>>

\* stream_via_tempfile: the file is handed to local playback, which plays
\* it or fails.
PlayTempFile(r) ==
    /\ stream_req[r].pc = "play"
    /\ \E ok \in BOOLEAN :
           stream_req' = [stream_req EXCEPT ![r] =
               IF ok
               THEN [@ EXCEPT !.pc = "cleanup", !.played = TRUE]
               ELSE [@ EXCEPT !.pc = "cleanup", !.pending = "RuntimeError",
                              !.failed_at = "playback"]]
    /\ UNCHANGED <<audio_available, tempfiles, other_than_stream>>

\* The end of the call with the file deleted only when nothing was raised.
LeaveStream_unlink_on_success(r) ==
    /\ stream_req[r].pc = "cleanup"
    /\ tempfiles' = IF stream_req[r].pending = ""
                    THEN {f \in tempfiles : f.owner # r}
                    ELSE tempfiles
    /\ \E kind \in Surfaced(stream_req[r].backend, stream_req[r].pending) :
           stream_req' = [stream_req EXCEPT
               ![r].pc = IF stream_req[r].pending = "" THEN "returned" ELSE "raised",
               ![r].raised = kind]
    /\ UNCHANGED <<audio_available, other_than_stream>>

\* stream_via_tempfile: its scoped cleanup deletes the file, then the call
\* returns, or the pending exception leaves synthesize.
LeaveStream(r) ==
    /\ stream_req[r].pc = "cleanup"
    /\ tempfiles' = {f \in tempfiles : f.owner # r}
    /\ \E kind \in Surfaced(stream_req[r].backend, stream_req[r].pending) :
           stream_req' = [stream_req EXCEPT
               ![r].pc = IF stream_req[r].pending = "" THEN "returned" ELSE "raised",
               ![r].raised = kind]
    /\ UNCHANGED <<audio_available, other_than_stream>>

InitStream ==
    /\ audio_available \in BOOLEAN
    /\ tempfiles = {}
    /\ stream_req \in [Requests -> {NewRequest("azure"), NewRequest("hub")}]
    /\ ResolverIdle /\ ShortcutIdle /\ TablesInit /\ DispatchIdle
    /\ HookIdle /\ EngineIdle
    /\ ServerIdle
    /\ RoutesIdle
    /\ InfoIdle /\ AnalyzerIdle
    /\ HttpIdle /\ BackendIdle
    /\ CacheIdle /\ ProbeIdle

NextStream ==
    \E r \in Requests :
        \/ AzureStreamRealtime(r)
        \/ AzureRequestAudio(r)
        \/ StartStreamingPlayer(r)
        \/ FeedChunk(r)
        \/ EndPlayChunks(r)
        \/ HubSynthesizeStream(r)
        \/ CreateTempFile(r)
        \/ SynthesizeToTempFile(r)
        \/ PlayTempFile(r)
        \/ LeaveStream(r)

SpecStream == InitStream /\ [][NextStream]_vars

---------------------------------------------------------------------------
(* Claims about stream delivery (checked under SpecStream) *)

StreamOver(r) == stream_req[r].pc \in {"returned", "raised"}

\* C10: when the probe reports no playback device, a stream request goes
\* through a uniquely named temporary file: a request that returned has
\* synthesized to it and played it, and once the call has returned or
\* raised (synthesis failure, playback failure) its file no longer exists.
C10_FallbackLeavesNoTempFile ==
    \A r \in Requests :
        /\ (~audio_available /\ stream_req[r].pc # "new") =>
               stream_req[r].path = "tempfile"
        /\ (stream_req[r].path = "tempfile" /\ stream_req[r].pc = "returned") =>
               stream_req[r].tmp # 0 /\ stream_req[r].played
        /\ (stream_req[r].path = "tempfile" /\ StreamOver(r)) =>
               \A f \in tempfiles : f.owner # r
        /\ \A f \in tempfiles : \A g \in tempfiles :
               (f.name = g.name) => (f = g)

\* C10 witness: with no playback device an Azure stream request created
\* its temporary file, synthesized into it, failed in playback and raised,
\* and no file of its own is left.
C10_Witness ==
    /\ ~audio_available
    /\ \E r \in Requests :
           /\ stream_req[r].backend = "azure"
           /\ stream_req[r].pc = "raised"
           /\ stream_req[r].failed_at = "playback"
           /\ stream_req[r].tmp # 0
           /\ \A f \in tempfiles : f.owner # r

\* The temp-file strategy ran for request r: its temporary file was created.
TempFileStrategyRan(r) == stream_req[r].tmp # 0

\* The real-time strategy ran for request r: audio was requested for the
\* player.
RealtimeStrategyRan(r) == stream_req[r].rt_requested

\* C11: every Azure stream request that has started has probed the audio
\* environment and runs the one strategy the probe chose.  With a device:
\* audio is requested from the backend, the StreamingPlayer is started
\* before any chunk is fed, chunks are fed one at a time, and no temporary
\* file is ever created; a finished request ran the real-time strategy.
\* Without a device: no audio is requested for a player and no
\* StreamingPlayer is started; a finished request ran the temp-file
\* strategy.
C11_ProbeChoosesOneStrategy ==
    \A r \in Requests :
        (stream_req[r].backend = "azure" /\ stream_req[r].pc # "new") =>
            /\ stream_req[r].probed
            /\ ~(TempFileStrategyRan(r) /\ RealtimeStrategyRan(r))
            /\ audio_available =>
                   /\ ~TempFileStrategyRan(r)
                   /\ \A f \in tempfiles : f.owner # r
                   /\ StreamOver(r) => RealtimeStrategyRan(r)
                   /\ stream_req[r].player => RealtimeStrategyRan(r)
                   /\ (stream_req[r].fed > 0) => stream_req[r].player
                   /\ stream_req[r].played => stream_req[r].player
            /\ ~audio_available =>
                   /\ ~RealtimeStrategyRan(r)
                   /\ ~stream_req[r].player
                   /\ stream_req[r].fed = 0
                   /\ StreamOver(r) => TempFileStrategyRan(r)

\* C11 witness: with a device, an Azure request returned after its player
\* was fed MaxChunks chunks, it created no temporary file, and no
\* temporary file is on disk.
C11_Witness ==
    /\ audio_available
    /\ \E r \in Requests :
           /\ stream_req[r].backend = "azure"
           /\ stream_req[r].pc = "returned"
           /\ stream_req[r].player
           /\ stream_req[r].fed = MaxChunks
           /\ stream_req[r].tmp = 0
    /\ tempfiles = {}

---------------------------------------------------------------------------
(* The audio-environment probe cache: audio_utils.check_audio_environment  *)
(* and check_audio_environment_async.  audio_utils.py is not among the     *)
(* sources; the two functions are modelled from the design of             *)
(* AudioEnvironmentState (computed once, cached process-wide, invalidated  *)
(* only by a forced refresh) and from tests/unit/test_audio_utils_cache.py. *)

\* The most check_audio_environment calls in one run.
MaxProbeCalls == 3

\* The calls started so far: finished ones and those still probing.
ProbeCallsStarted ==
    Len(probe_history) + Cardinality({c \in ProbeCallers : probe_call[c].pc # "idle"})

\* What a device probe reports.
ProbeResult(available) == [available |-> available, reason |-> "Probed"]

\* A finished call, as the history keeps it.
FinishedProbeCall(mode, force, seen, probed, result, stored) ==
    [mode |-> mode, force |-> force, seen |-> seen, probed |-> probed,
     result |-> result, stored |-> stored]

\* A call that found the cache populated and returns what is cached.
CacheHit(mode, force) ==
    FinishedProbeCall(mode, force, audio_env_cache, FALSE,
                      audio_env_cache, audio_env_cache)

\* A call that goes on to probe the device.
Probing(mode, force) ==
    [pc |-> "probing", mode |-> mode, force |-> force, seen |-> audio_env_cache]

\* The async variant probing without looking at the cache.
CheckAudioEnvironmentAsync_always_probes(c) ==
    /\ probe_call[c].pc = "idle"
    /\ ProbeCallsStarted < MaxProbeCalls
    /\ \E force \in BOOLEAN :
           probe_call' = [probe_call EXCEPT ![c] = Probing("async", force)]
    /\ UNCHANGED <<audio_env_cache, device_present, probe_history, other_than_probe>>

\* check_audio_environment(force_refresh=False): a populated cache is
\* returned at once unless force_refresh; otherwise the probe is run.
CheckAudioEnvironment(c) ==
    /\ probe_call[c].pc = "idle"
    /\ ProbeCallsStarted < MaxProbeCalls
    /\ \E force \in BOOLEAN :
           IF ~force /\ audio_env_cache # NoAudioEnv
           THEN /\ probe_history' = Append(probe_history, CacheHit("sync", force))
                /\ UNCHANGED probe_call
           ELSE /\ probe_call' = [probe_call EXCEPT ![c] = Probing("sync", force)]
                /\ UNCHANGED probe_history
    /\ UNCHANGED <<audio_env_cache, device_present, other_than_probe>>

\* check_audio_environment_async(force_refresh=False): the same decision,
\* the probe being an awaited subprocess.
CheckAudioEnvironmentAsync(c) ==
    /\ probe_call[c].pc = "idle"
    /\ ProbeCallsStarted < MaxProbeCalls
    /\ \E force \in BOOLEAN :
           IF ~force /\ audio_env_cache # NoAudioEnv
           THEN /\ probe_history' = Append(probe_history, CacheHit("async", force))
                /\ UNCHANGED probe_call
           ELSE /\ probe_call' = [probe_call EXCEPT ![c] = Probing("async", force)]
                /\ UNCHANGED probe_history
    /\ UNCHANGED <<audio_env_cache, device_present, other_than_probe>>

\* The device probe of a call ends (subprocess.run returns, or the awaited
\* subprocess exits): the result is stored in the cache and returned.
ProbeCompletes(c) ==
    /\ probe_call[c].pc = "probing"
    /\ LET result == ProbeResult(device_present) IN
           /\ audio_env_cache' = result
           /\ probe_history' = Append(probe_history,
                  FinishedProbeCall(probe_call[c].mode, probe_call[c].force,
                                    probe_call[c].seen, TRUE, result, result))
    /\ probe_call' = [probe_call EXCEPT ![c] = NoProbeCall]
    /\ UNCHANGED <<device_present, other_than_probe>>

\* The environment: a playback device appears or disappears.
DeviceChanges ==
    /\ device_present' = ~device_present
    /\ UNCHANGED <<audio_env_cache, probe_call, probe_history, other_than_probe>>

InitProbe ==
    /\ audio_env_cache = NoAudioEnv
    /\ device_present \in BOOLEAN
    /\ probe_call = [c \in ProbeCallers |-> NoProbeCall]
    /\ probe_history = <<>>
    /\ ResolverIdle /\ ShortcutIdle /\ TablesInit /\ DispatchIdle
    /\ HookIdle /\ EngineIdle
    /\ ServerIdle
    /\ RoutesIdle
    /\ InfoIdle /\ AnalyzerIdle
    /\ BackendIdle
    /\ CacheIdle /\ HttpIdle
    /\ StreamIdle

NextProbe ==
    \/ DeviceChanges
    \/ \E c \in ProbeCallers :
           \/ CheckAudioEnvironment(c)
           \/ CheckAudioEnvironmentAsync(c)
           \/ ProbeCompletes(c)

SpecProbe == InitProbe /\ [][NextProbe]_vars

---------------------------------------------------------------------------
(* Claims about the probe cache (checked under SpecProbe) *)

\* C12: for every finished check_audio_environment call, sync or async:
\* without force_refresh and with an empty cache it ran the probe and
\* stored the result it returned; without force_refresh and with a
\* populated cache it ran no probe and returned the cached result; a call
\* that probed although the cache was populated was a force_refresh call,
\* and a force_refresh call always probes and stores.
C12_ProbeCacheLifecycle ==
    \A i \in 1..Len(probe_history) :
        LET h == probe_history[i] IN
            /\ (~h.force /\ h.seen = NoAudioEnv) => (h.probed /\ h.stored = h.result)
            /\ (~h.force /\ h.seen # NoAudioEnv) => (~h.probed /\ h.result = h.seen)
            /\ (h.probed /\ h.seen # NoAudioEnv) => h.force
            /\ h.force => (h.probed /\ h.stored = h.result)

\* C12 witness: a sync call filled the empty cache, the device then went
\* away, an async call without force_refresh returned the cached (now
\* stale) result without probing, and a force_refresh call re-probed the
\* populated cache.
C12_Witness ==
    /\ Len(probe_history) = 3
    /\ probe_history[1].mode = "sync" /\ ~probe_history[1].force
    /\ probe_history[1].seen = NoAudioEnv /\ probe_history[1].probed
    /\ probe_history[2].mode = "async" /\ ~probe_history[2].force
    /\ ~probe_history[2].probed
    /\ probe_history[2].result = probe_history[1].result
    /\ probe_history[2].result.available # device_present
    /\ probe_history[3].force /\ probe_history[3].probed
    /\ probe_history[3].seen = probe_history[1].result
    /\ audio_env_cache = ProbeResult(device_present)

---------------------------------------------------------------------------
(* Error taxonomy: exceptions.map_http_error.  exceptions.py is not among  *)
(* the sources; the mapping is modelled from the design of the Error       *)
(* Taxonomy with the status codes internal/config.py configures.            *)

\* "http_unauthorized": 401
HTTP_UNAUTHORIZED == 401

\* "http_forbidden": 403
HTTP_FORBIDDEN == 403

\* "http_rate_limit": 429
HTTP_RATE_LIMIT == 429

\* "http_server_error_range_start": 500
HTTP_SERVER_ERROR_RANGE_START == 500

\* The range end taken one too low.
HTTP_SERVER_ERROR_RANGE_END_short == 600 - 1

\* "http_server_error_range_end": 600 (the end is exclusive)
HTTP_SERVER_ERROR_RANGE_END == 600

\* An exception of the taxonomy with its retryability hint.
TypedError(kind, retryable) == [raised |-> kind, retryable |-> retryable]

\* map_http_error(status_code, response_text, provider): the typed error
\* for a vendor HTTP status.
map_http_error(status) ==
    IF status = HTTP_UNAUTHORIZED \/ status = HTTP_FORBIDDEN
    THEN TypedError("AuthenticationError", FALSE)
    ELSE IF status = HTTP_RATE_LIMIT
    THEN TypedError("ProviderError", TRUE)
    ELSE IF HTTP_SERVER_ERROR_RANGE_START <= status
            /\ status < HTTP_SERVER_ERROR_RANGE_END
    THEN TypedError("NetworkError", TRUE)
    ELSE TypedError("ProviderError", FALSE)

\* The status codes the mapper is tried on.
MinStatus == 395
MaxStatus == 605
StatusCodes == MinStatus..MaxStatus

InitHttp ==
    /\ status_code \in StatusCodes
    /\ mapped = NotCalled
    /\ ResolverIdle /\ ShortcutIdle /\ TablesInit /\ DispatchIdle
    /\ HookIdle /\ EngineIdle
    /\ ServerIdle
    /\ RoutesIdle
    /\ InfoIdle /\ AnalyzerIdle
    /\ CacheIdle /\ BackendIdle
    /\ StreamIdle /\ ProbeIdle

\* raise map_http_error(response.status_code, response.text, "Azure TTS")
MapHttpError ==
    /\ mapped = NotCalled
    /\ mapped' = map_http_error(status_code)
    /\ UNCHANGED <<status_code, other_than_http>>

NextHttp == MapHttpError

SpecHttp == InitHttp /\ [][NextHttp]_vars

---------------------------------------------------------------------------
(* Claims about the error mapping (checked under SpecHttp) *)

---------------------------------------------------------------------------
(* The backend boundary: one call of synthesize(text, output_path,         *)
(* **kwargs) on AzureTTSProvider, HubTTSProvider or SystemTTSProvider.     *)
(* A call ends with what it raised ("" when it returned) and the list of   *)
(* side effects it started, in order: "request" (a synthesis request sent  *)
(* to a service), "subprocess" (a local engine run), "audio" (audible      *)
(* output), "file" (the output file written), "tmp_created" and            *)
(* "tmp_deleted" (an intermediate temporary file made and removed).        *)

\* How a synthesize call ended.
Ended(raised, effects) == [raised |-> raised, effects |-> effects]

\* except (httpx.RequestError, OSError, ValueError, RuntimeError) as e:
\* NetworkError when the message holds a network keyword, else ProviderError.
AzureRemap(network_keyword) ==
    IF network_keyword THEN "NetworkError" ELSE "ProviderError"

\* The exceptions AzureTTSProvider.synthesize re-raises unchanged.
AzureReraised ==
    {"NetworkError", "AuthenticationError", "ProviderError", "ConfigurationError"}

\* The exceptions AzureTTSProvider.synthesize catches and maps.
AzureCaught == {"RequestError", "OSError", "ValueError", "RuntimeError"}

\* What leaves AzureTTSProvider.synthesize when `kind` is raised inside its
\* try block: the two except clauses, and anything else passes through.
AzureBoundary(kind, network_keyword) ==
    IF kind = "" \/ kind \in AzureReraised THEN kind
    ELSE IF kind \in AzureCaught THEN AzureRemap(network_keyword)
    ELSE kind

\* open(output_path, "wb") and write: the empty path cannot be opened; any
\* other path fails when the surroundings say so.
OpenFails(output_path, io_fails) == output_path = EmptyStr \/ io_fails

\* OUTPUT_FORMATS: the formats Azure returns directly.
AZURE_OUTPUT_FORMATS == {"mp3", "wav"}

\* AzureTTSProvider._synthesize_to_file, lines 216-220: the response is
\* written to a temporary .mp3, convert_audio makes the output file from
\* it, and os.unlink removes the temporary file when convert_audio returned.
azure_convert(output_path, convert_fails) ==
    IF convert_fails
    THEN Ended("ProviderError", <<"request", "tmp_created">>)
    ELSE Ended("", <<"request", "tmp_created", "file", "tmp_deleted">>)

\* AzureTTSProvider._synthesize_to_file: _get_api_key, _get_endpoint,
\* request_with_retry, the status test, then open and write for a format
\* Azure returns directly, or the conversion through a temporary file.
\* `response` is a status code, or 0 when request_with_retry raised
\* NetworkError; `io_fails` is open() or convert_audio failing.
AzureSynthesizeToFile(call, response, io_fails) ==
    IF ~call.api_key THEN Ended("AuthenticationError", <<>>)
    ELSE IF ~call.endpoint THEN Ended("ConfigurationError", <<>>)
    ELSE IF response = 0 THEN Ended("NetworkError", <<"request">>)
    ELSE IF response # 200
    THEN Ended(map_http_error(response).raised, <<"request">>)
    ELSE IF call.output_format \notin AZURE_OUTPUT_FORMATS
    THEN azure_convert(call.output_path, OpenFails(call.output_path, io_fails))
    ELSE IF OpenFails(call.output_path, io_fails)
    THEN Ended("OSError", <<"request">>)
    ELSE Ended("", <<"request", "file">>)

\* AzureTTSProvider.synthesize with stream false.
AzureSave(call, response, io_fails, network_keyword) ==
    IF call.output_path = None
    THEN Ended(AzureBoundary("ValueError", FALSE), <<>>)
    ELSE LET inner == AzureSynthesizeToFile(call, response, io_fails) IN
         Ended(AzureBoundary(inner.raised, network_keyword), inner.effects)

\* HubTTSProvider._synthesize_to_file: post_capability, the reply's error
\* and audio fields, base64.b64decode, open and write.  `reply` is "audio",
\* "error", "no_audio", "bad_base64", or "transport" when post_capability
\* raised.
HubSynthesizeToFile(call, reply, io_fails) ==
    IF reply = "transport" THEN Ended("TransportError", <<"request">>)
    ELSE IF reply = "error" THEN Ended("ProviderError", <<"request">>)
    ELSE IF reply = "no_audio" THEN Ended("ProviderError", <<"request">>)
    ELSE IF reply = "bad_base64" THEN Ended("ValueError", <<"request">>)
    ELSE IF OpenFails(call.output_path, io_fails)
    THEN Ended("OSError", <<"request">>)
    ELSE Ended("", <<"request", "file">>)

\* HubTTSProvider.synthesize with stream false: no handler around the call.
HubSave(call, reply, io_fails) ==
    IF call.output_path = None
    THEN Ended("ProviderError", <<>>)
    ELSE HubSynthesizeToFile(call, reply, io_fails)

\* AzureTTSProvider._stream_realtime as synthesize runs it inside its try
\* block: the probe's answer chooses the player or the temporary file
\* (whose path is never empty); `player_fails` is the local player failing.
AzureStream(call, response, io_fails, player_fails, network_keyword) ==
    LET inner == AzureSynthesizeToFile(
                     [call EXCEPT !.output_path = s_out_wav, !.output_format = "mp3"],
                     response, io_fails)
        requested == IF call.device THEN <<"request">> ELSE inner.effects
        raw == IF call.device /\ ~call.api_key THEN "AuthenticationError"
               ELSE IF call.device /\ ~call.endpoint THEN "ConfigurationError"
               ELSE IF call.device /\ response = 0 THEN "NetworkError"
               ELSE IF call.device /\ response # 200
               THEN map_http_error(response).raised
               ELSE IF ~call.device /\ inner.raised # "" THEN inner.raised
               ELSE IF player_fails THEN "RuntimeError"
               ELSE ""
    IN  IF call.device /\ (~call.api_key \/ ~call.endpoint)
        THEN Ended(AzureBoundary(raw, network_keyword), <<>>)
        ELSE IF raw = "" THEN Ended("", Append(requested, "audio"))
        ELSE Ended(AzureBoundary(raw, network_keyword), requested)

\* HubTTSProvider.synthesize with stream: stream_via_tempfile around
\* _synthesize_to_file, no handler.
HubStream(call, reply, io_fails, player_fails) ==
    LET inner == HubSynthesizeToFile([call EXCEPT !.output_path = s_out_wav],
                                     reply, io_fails)
    IN  IF inner.raised # "" THEN inner
        ELSE IF player_fails THEN Ended("RuntimeError", inner.effects)
        ELSE Ended("", Append(inner.effects, "audio"))

\* The selection taking the first detected engine whatever the mode.
select_engine_first_available(available_engines, stream) ==
    IF available_engines # <<>> THEN available_engines[1] ELSE "None"

\* SystemTTSProvider._select_engine: the first detected engine for
\* streaming; the first of the detected engines that is espeak or say for
\* file output; None without one.
select_engine(available_engines, stream) ==
    IF stream
    THEN IF available_engines # <<>> THEN available_engines[1] ELSE "None"
    ELSE LET file_capable == {i \in 1..Len(available_engines) :
                                 available_engines[i] \in {"espeak", "say"}}
         IN  IF file_capable = {} THEN "None"
             ELSE available_engines[CHOOSE i \in file_capable :
                                        \A j \in file_capable : i <= j]

\* _run_espeak / _run_festival / _run_say: subprocess.run of the engine.
\* A missing executable is FileNotFoundError, a nonzero exit code is
\* ProviderError.  With a path the engine writes the file; without one
\* (None or the empty string: `if output_path:`) it speaks aloud.
run_engine(output_path, exe_missing, exit_ok) ==
    IF exe_missing THEN Ended("OSError", <<>>)
    ELSE IF ~exit_ok THEN Ended("ProviderError", <<"subprocess">>)
    ELSE IF output_path = None \/ output_path = EmptyStr
    THEN Ended("", <<"subprocess", "audio">>)
    ELSE Ended("", <<"subprocess", "file">>)

\* SystemTTSProvider._speak_to_file for espeak with a format other than
\* wav: espeak writes a temporary wav file, convert_audio makes the output
\* file from it, and the temporary file is deleted in the finally clause.
espeak_converted(output_path, exe_missing, exit_ok, convert_ok) ==
    LET ran == run_engine(s_out_wav, exe_missing, exit_ok) IN
        IF ran.raised # ""
        THEN Ended(ran.raised, <<"tmp_created">> \o ran.effects \o <<"tmp_deleted">>)
        ELSE IF ~convert_ok \/ output_path = EmptyStr
        THEN Ended("ProviderError", <<"tmp_created", "subprocess", "tmp_deleted">>)
        ELSE Ended("", <<"tmp_created", "subprocess", "file", "tmp_deleted">>)

\* A call of the system backend also tells which engine it ran ("None"
\* when it ended before _speak or _speak_to_file).
EndedWith(ended, engine) ==
    [raised |-> ended.raised, effects |-> ended.effects, engine |-> engine]

\* SystemTTSProvider.synthesize: no handler around any of it.
SystemSynthesizeResult(call, exe_missing, exit_ok, convert_ok) ==
    LET engine == select_engine(call.available_engines, call.stream) IN
        IF call.available_engines = <<>>
        THEN EndedWith(Ended("ProviderError", <<>>), "None")
        ELSE IF engine = "None"
        THEN EndedWith(Ended("ProviderError", <<>>), "None")
        ELSE IF call.stream
        THEN EndedWith(run_engine(None, exe_missing, exit_ok), engine)
        ELSE IF call.output_path = None
        THEN EndedWith(Ended("ValueError", <<>>), "None")
        ELSE IF engine = "espeak" /\ call.output_format # "wav"
        THEN EndedWith(espeak_converted(call.output_path, exe_missing, exit_ok,
                                        convert_ok), engine)
        ELSE EndedWith(run_engine(call.output_path, exe_missing, exit_ok), engine)

---------------------------------------------------------------------------
(* Specification of the backend boundary: one synthesize call *)

\* The output formats asked for.
OutputFormats == {"wav", "mp3", "ogg"}

\* output_path: None, the empty string, or a path.
OutputPaths == {None, EmptyStr, s_out_wav}

\* What _detect_available_engines can have found, in detection order.
EngineLists ==
    {<<>>, <<"espeak">>, <<"festival">>, <<"say">>,
     <<"espeak", "festival">>, <<"festival", "say">>}

\* The responses request_with_retry can hand back to the Azure backend: a
\* status code, or 0 for none (NetworkError raised).
AzureResponses == {0, 200, 400, 401, 403, 429, 500}

\* The replies HubClient.post_capability can give.
HubReplies == {"audio", "error", "no_audio", "bad_base64", "transport"}

BackendCalls ==
    {c \in [backend : {"azure", "hub", "system"}, stream : BOOLEAN,
            output_path : OutputPaths, output_format : OutputFormats,
            api_key : BOOLEAN, endpoint : BOOLEAN,
            available_engines : EngineLists, device : BOOLEAN] :
        \* what a backend does not read is left at its idle value
        /\ c.backend # "azure" =>
               (~c.api_key /\ ~c.endpoint /\ ~c.device)
        /\ c.backend # "system" => c.available_engines = <<>>}

InitBackend ==
    /\ backend_call \in BackendCalls
    /\ backend_out = NotCalled
    /\ ResolverIdle /\ ShortcutIdle /\ TablesInit /\ DispatchIdle
    /\ HookIdle /\ EngineIdle
    /\ ServerIdle
    /\ RoutesIdle
    /\ AnalyzerIdle
    /\ CacheIdle /\ InfoIdle
    /\ StreamIdle /\ ProbeIdle /\ HttpIdle

\* AzureTTSProvider.synthesize
AzureSynthesize ==
    /\ backend_out = NotCalled
    /\ backend_call.backend = "azure"
    /\ \E response \in AzureResponses, io_fails \in BOOLEAN,
          player_fails \in BOOLEAN, network_keyword \in BOOLEAN :
           backend_out' =
               IF backend_call.stream
               THEN AzureStream(backend_call, response, io_fails, player_fails,
                                network_keyword)
               ELSE AzureSave(backend_call, response, io_fails, network_keyword)
    /\ UNCHANGED <<backend_call, other_than_backend>>

\* HubTTSProvider.synthesize
HubSynthesize ==
    /\ backend_out = NotCalled
    /\ backend_call.backend = "hub"
    /\ \E reply \in HubReplies, io_fails \in BOOLEAN, player_fails \in BOOLEAN :
           backend_out' =
               IF backend_call.stream
               THEN HubStream(backend_call, reply, io_fails, player_fails)
               ELSE HubSave(backend_call, reply, io_fails)
    /\ UNCHANGED <<backend_call, other_than_backend>>

\* SystemTTSProvider.synthesize
SystemSynthesize ==
    /\ backend_out = NotCalled
    /\ backend_call.backend = "system"
    /\ \E exe_missing \in BOOLEAN, exit_ok \in BOOLEAN, convert_ok \in BOOLEAN :
           backend_out' =
               SystemSynthesizeResult(backend_call, exe_missing, exit_ok, convert_ok)
    /\ UNCHANGED <<backend_call, other_than_backend>>

NextBackend == AzureSynthesize \/ HubSynthesize \/ SystemSynthesize

SpecBackend == InitBackend /\ [][NextBackend]_vars

---------------------------------------------------------------------------
(* Claims about the backend boundary (checked under SpecBackend) *)

BackendCalled == backend_out # NotCalled

\* A synthesize call that raised.
BackendRaised == BackendCalled /\ backend_out.raised # ""

\* C13: whatever fails inside synthesize, on Azure, Hub or System, the
\* exception that reaches the caller is ConfigurationError,
\* AuthenticationError, NetworkError or ProviderError.
C13_OnlyTypedErrorsCrossBoundary ==
    BackendRaised => backend_out.raised \in TypedErrors

\* A save-mode call whose output path is missing or empty.
SaveWithoutPath ==
    /\ ~backend_call.stream
    /\ backend_call.output_path \in {None, EmptyStr}

\* C14: a save-mode call whose output path is missing or empty is
\* rejected (it raises), what it raises is not ProviderError, and it
\* started no synthesis request, subprocess or audible output.
C14_MissingPathIsContractError ==
    (BackendCalled /\ SaveWithoutPath) =>
        /\ backend_out.raised # ""
        /\ backend_out.raised # "ProviderError"
        /\ backend_out.effects = <<>>

\* The Azure call reached its credential lookup: everything but a
\* save-mode call without an output path.
AzureLooksUpCredentials ==
    /\ backend_call.backend = "azure"
    /\ backend_call.stream \/ backend_call.output_path # None

\* C15: an Azure synthesize call that finds the API key or the
\* region/endpoint absent fails with ConfigurationError, and one that
\* fails with AuthenticationError had both present.
C15_AbsentSettingIsConfigurationError ==
    (BackendCalled /\ AzureLooksUpCredentials) =>
        /\ (~backend_call.api_key \/ ~backend_call.endpoint) =>
               backend_out.raised = "ConfigurationError"
        /\ backend_out.raised = "AuthenticationError" =>
               (backend_call.api_key /\ backend_call.endpoint)

\* The first detected engine that can write a file ("None" without one).
FirstFileCapable(engines) ==
    IF \E i \in 1..Len(engines) : engines[i] \in {"espeak", "say"}
    THEN engines[CHOOSE i \in 1..Len(engines) :
                     /\ engines[i] \in {"espeak", "say"}
                     /\ \A j \in 1..(i - 1) : engines[j] \notin {"espeak", "say"}]
    ELSE "None"

HasEffect(out, effect) == \E i \in 1..Len(out.effects) : out.effects[i] = effect

TmpLeft(out) == HasEffect(out, "tmp_created") /\ ~HasEffect(out, "tmp_deleted")

\* C29: an Azure save-mode call whose format needs conversion (neither mp3
\* nor wav) leaves no intermediate temporary file behind, whether it
\* returns or raises, convert_audio raising included.
C29_AzureTempFileRemoved ==
    (/\ BackendCalled
     /\ backend_call.backend = "azure"
     /\ ~backend_call.stream
     /\ backend_call.output_format \notin AZURE_OUTPUT_FORMATS)
    => ~TmpLeft(backend_out)

---------------------------------------------------------------------------
(* AzureTTSProvider.get_info and _get_all_voices.  A JSON value of the     *)
(* voice-list response is a record: [type |-> "dict", keys, ShortName],    *)
(* [type |-> "str", text] or [type |-> "number"]; a voice name is a        *)
(* string.                                                                  *)

\* get_sample_voices(): the keys of SAMPLE_VOICES.
SAMPLE_VOICES ==
    <<"ar-EG-SalmaNeural", "de-DE-KatjaNeural", "en-AU-NatashaNeural",
      "en-GB-LibbyNeural", "en-IN-NeerjaNeural", "en-US-AriaNeural",
      "en-US-EmmaMultilingualNeural", "en-US-GuyNeural", "es-ES-ElviraNeural",
      "es-MX-DaliaNeural", "fr-FR-DeniseNeural", "hi-IN-SwaraNeural",
      "it-IT-ElsaNeural", "ja-JP-NanamiNeural", "ko-KR-SunHiNeural",
      "pt-BR-FranciscaNeural", "pt-PT-RaquelNeural", "ru-RU-SvetlanaNeural",
      "sv-SE-SofieNeural", "tr-TR-EmelNeural", "zh-CN-XiaoxiaoNeural",
      "zh-HK-HiuMaanNeural">>

\* The most elements in the body of a voice-list response.
MaxVoices == 2

\* The JSON values an element of the body can be.
JsonElements ==
    {[type |-> "dict", keys |-> {"ShortName", "Locale"}, ShortName |-> "en-GB-RyanNeural"],
     [type |-> "dict", keys |-> {"ShortName", "Locale"}, ShortName |-> "fr-FR-HenriNeural"],
     [type |-> "dict", keys |-> {"Locale"}, ShortName |-> ""],
     [type |-> "str", text |-> "ShortName"],
     [type |-> "str", text |-> "error"],
     [type |-> "number"]}

\* "ShortName" in voice: key membership for a dict, substring test for a
\* str, TypeError for a number.
has_ShortName(voice) ==
    IF voice.type = "dict" THEN [raised |-> "", value |-> "ShortName" \in voice.keys]
    ELSE IF voice.type = "str"
    THEN [raised |-> "", value |-> voice.text = "ShortName"]
    ELSE [raised |-> "TypeError", value |-> FALSE]

\* voice["ShortName"]: the value for a dict, TypeError for a str.
get_ShortName(voice) ==
    IF voice.type = "dict" THEN [raised |-> "", value |-> voice.ShortName]
    ELSE [raised |-> "TypeError", value |-> ""]

\* [voice["ShortName"] for voice in data if "ShortName" in voice], element
\* by element from the left; the first exception ends it.
RECURSIVE short_names(_)
short_names(data) ==
    IF data = <<>> THEN [raised |-> "", value |-> <<>>]
    ELSE LET test == has_ShortName(Head(data))
             rest == short_names(Tail(data))
         IN  IF test.raised # "" THEN [raised |-> test.raised, value |-> <<>>]
             ELSE IF ~test.value THEN rest
             ELSE LET got == get_ShortName(Head(data)) IN
                  IF got.raised # "" THEN [raised |-> got.raised, value |-> <<>>]
                  ELSE IF rest.raised # "" THEN rest
                  ELSE [raised |-> "", value |-> <<got.value>> \o rest.value]

\* What the voice-list request can come to: request_with_retry raising
\* httpx.RequestError, a status other than 200, or a 200 response whose
\* body is not JSON, is JSON null, or is a JSON array of elements.
RECURSIVE JsonArrays(_)
JsonArrays(n) ==
    IF n = 0 THEN {<<>>}
    ELSE JsonArrays(n - 1) \cup
         {Append(a, e) : a \in JsonArrays(n - 1), e \in JsonElements}

VoiceListOutcomes ==
    {[kind |-> "RequestError"], [kind |-> "status", status |-> 401],
     [kind |-> "not_json"], [kind |-> "null"]}
    \cup {[kind |-> "array", data |-> a] : a \in JsonArrays(MaxVoices)}

\* The result of one step of _get_all_voices: what it raised, what it
\* returned, and the cache it left.
Voices(raised, value, cache) == [raised |-> raised, value |-> value, cache |-> cache]

\* AzureTTSProvider._get_all_voices: the cached list; the sample voices
\* without key or endpoint, on a status other than 200, and on ValueError,
\* KeyError or httpx.RequestError; else the ShortName of every element.
get_all_voices(cache, config, outcome) ==
    IF cache # None THEN Voices("", cache, cache)
    ELSE IF ~config.api_key \/ ~config.endpoint
    THEN Voices("", SAMPLE_VOICES, SAMPLE_VOICES)
    ELSE IF outcome.kind \in {"RequestError", "status", "not_json"}
    THEN Voices("", SAMPLE_VOICES, SAMPLE_VOICES)
    ELSE IF outcome.kind = "null" THEN Voices("TypeError", <<>>, cache)
    ELSE LET names == short_names(outcome.data) IN
         IF names.raised \in {"ValueError", "KeyError"}
         THEN Voices("", SAMPLE_VOICES, SAMPLE_VOICES)
         ELSE IF names.raised # "" THEN Voices(names.raised, <<>>, cache)
         ELSE Voices("", names.value, names.value)

\* get_info, the api_status line.
api_status(config) ==
    IF config.api_key /\ config.endpoint THEN "Configured"
    ELSE IF ~config.api_key THEN "API key not set"
    ELSE "Region/endpoint not set"

\* AzureTTSProvider.get_info: the info dict, or the exception
\* _get_all_voices let through.
get_info(cache, config, outcome) ==
    LET all_voices == get_all_voices(cache, config, outcome) IN
        IF all_voices.raised # ""
        THEN [raised |-> all_voices.raised, api_status |-> "",
              all_voices |-> <<>>, voice_count |-> 0]
        ELSE [raised |-> "", api_status |-> api_status(config),
              all_voices |-> all_voices.value,
              voice_count |-> IF all_voices.value # <<>>
                              THEN Len(all_voices.value)
                              ELSE Len(SAMPLE_VOICES)]

\* The most get_info calls on one provider object.
MaxInfoCalls == 3

InitInfo ==
    /\ voices_cache = None
    /\ info_config \in [api_key : BOOLEAN, endpoint : BOOLEAN]
    /\ info_out = NotCalled
    /\ info_calls = 0
    /\ ResolverIdle /\ ShortcutIdle /\ TablesInit /\ DispatchIdle
    /\ HookIdle /\ EngineIdle
    /\ ServerIdle
    /\ RoutesIdle
    /\ CacheIdle /\ AnalyzerIdle
    /\ StreamIdle /\ ProbeIdle /\ HttpIdle /\ BackendIdle

\* One call of AzureTTSProvider.get_info; the voice-list request, when it
\* is made, comes to one of VoiceListOutcomes.
GetInfo ==
    /\ info_calls < MaxInfoCalls
    /\ \E outcome \in VoiceListOutcomes :
           /\ info_out' = get_info(voices_cache, info_config, outcome)
           /\ voices_cache' = get_all_voices(voices_cache, info_config, outcome).cache
    /\ info_calls' = info_calls + 1
    /\ UNCHANGED <<info_config, other_than_info>>

\* The settings change between calls: `voice config set azure_api_key ...`,
\* azure_region, or the environment variables.
ChangeAzureSettings ==
    /\ info_calls < MaxInfoCalls
    /\ \E config \in [api_key : BOOLEAN, endpoint : BOOLEAN] :
           /\ config # info_config
           /\ info_config' = config
    /\ UNCHANGED <<voices_cache, info_out, info_calls, other_than_info>>

NextInfo == GetInfo \/ ChangeAzureSettings

SpecInfo == InitInfo /\ [][NextInfo]_vars

---------------------------------------------------------------------------
(* Claims about get_info (checked under SpecInfo) *)

\* C17: a get_info call never raises: whatever the configuration and
\* whatever the voice-list request comes to, it returns an info object
\* whose voice list is the cached, fetched or sample list.
C17_GetInfoNeverRaises ==
    info_out # NotCalled =>
        /\ info_out.raised = ""
        /\ info_out.voice_count > 0

---------------------------------------------------------------------------
(* voice_browser/voice_analyzer.py: analyze_voice and the patterns it      *)
(* searches with.  A compiled pattern is the sequence of its alternatives,  *)
(* each a literal text with an optional \b before and after it;            *)
(* pattern.search finds the leftmost position where an alternative         *)
(* matches and, there, the first alternative that does.                     *)

UPPERCASE ==
    <<"A", "B", "C", "D", "E", "F", "G", "H", "I", "J", "K", "L", "M", "N", "O", "P", "Q", "R", "S", "T", "U", "V", "W", "X", "Y", "Z">>
LOWERCASE ==
    <<"a", "b", "c", "d", "e", "f", "g", "h", "i", "j", "k", "l", "m", "n", "o", "p", "q", "r", "s", "t", "u", "v", "w", "x", "y", "z">>

\* The characters \w matches among those used here.
WordChars ==
    {UPPERCASE[i] : i \in 1..26} \cup {LOWERCASE[i] : i \in 1..26}
    \cup {"0", "1", "2", "3", "4", "5", "6", "7", "8", "9", "_"}

\* str.lower()
lower(s) ==
    [i \in 1..Len(s) |->
        IF \E k \in 1..26 : UPPERCASE[k] = s[i]
        THEN LOWERCASE[CHOOSE k \in 1..26 : UPPERCASE[k] = s[i]]
        ELSE s[i]]

\* _FEMALE_INDICATORS
FEMALE_INDICATORS ==
    <<<<"e", "m", "i", "l", "y">>,
      <<"j", "e", "n", "n", "y">>,
      <<"a", "r", "i", "a">>,
      <<"d", "a", "v", "i", "s">>,
      <<"j", "a", "n", "e">>,
      <<"s", "a", "r", "a", "h">>,
      <<"a", "m", "y">>,
      <<"e", "m", "m", "a">>,
      <<"f", "e", "m", "a", "l", "e">>,
      <<"w", "o", "m", "a", "n">>,
      <<"l", "i", "b", "b", "y">>,
      <<"c", "l", "a", "r", "a">>,
      <<"n", "a", "t", "a", "s", "h", "a">>>>

\* _MALE_INDICATORS
MALE_INDICATORS ==
    <<<<"g", "u", "y">>,
      <<"t", "o", "n", "y">>,
      <<"b", "r", "a", "n", "d", "o", "n">>,
      <<"c", "h", "r", "i", "s", "t", "o", "p", "h", "e", "r">>,
      <<"e", "r", "i", "c">>,
      <<"m", "a", "l", "e">>,
      <<"m", "a", "n">>,
      <<"b", "o", "y">>>>

s_eric == <<"e", "r", "i", "c">>
s_man == <<"m", "a", "n">>

\* _PROBLEMATIC_WORDS
PROBLEMATIC_WORDS == {s_man, s_eric}

\* _REGION_MAP, in the order the dict literal lists its items.
REGION_MAP ==
    <<<<<<"e", "n", "-", "I", "E">>, <<"I", "r", "i", "s", "h">>>>,
      <<<<"I", "r", "i", "s", "h">>, <<"I", "r", "i", "s", "h">>>>,
      <<<<"e", "n", "-", "G", "B">>, <<"B", "r", "i", "t", "i", "s", "h">>>>,
      <<<<"e", "n", "-", "U", "K">>, <<"B", "r", "i", "t", "i", "s", "h">>>>,
      <<<<"B", "r", "i", "t", "i", "s", "h">>, <<"B", "r", "i", "t", "i", "s", "h">>>>,
      <<<<"e", "n", "-", "U", "S">>, <<"A", "m", "e", "r", "i", "c", "a", "n">>>>,
      <<<<"A", "m", "e", "r", "i", "c", "a", "n">>, <<"A", "m", "e", "r", "i", "c", "a", "n">>>>,
      <<<<"e", "n", "-", "A", "U">>, <<"A", "u", "s", "t", "r", "a", "l", "i", "a", "n">>>>,
      <<<<"A", "u", "s", "t", "r", "a", "l", "i", "a", "n">>, <<"A", "u", "s", "t", "r", "a", "l", "i", "a", "n">>>>,
      <<<<"e", "n", "-", "C", "A">>, <<"C", "a", "n", "a", "d", "i", "a", "n">>>>,
      <<<<"C", "a", "n", "a", "d", "i", "a", "n">>, <<"C", "a", "n", "a", "d", "i", "a", "n">>>>,
      <<<<"e", "n", "-", "I", "N">>, <<"I", "n", "d", "i", "a", "n">>>>,
      <<<<"I", "n", "d", "i", "a", "n">>, <<"I", "n", "d", "i", "a", "n">>>>>>

\* sorted(items, key=len, reverse=True): longer texts first, texts of the
\* same length in their original order.
RECURSIVE sorted_by_len_desc(_)
sorted_by_len_desc(items) ==
    IF items = <<>> THEN <<>>
    ELSE LET longest == CHOOSE i \in 1..Len(items) :
                 /\ \A j \in 1..Len(items) : Len(items[j]) <= Len(items[i])
                 /\ \A j \in 1..(i - 1) : Len(items[j]) < Len(items[i])
             rest == [j \in 1..(Len(items) - 1) |->
                         IF j < longest THEN items[j] ELSE items[j + 1]]
         IN  <<items[longest]>> \o sorted_by_len_desc(rest)

\* One alternative of a pattern.
Alternative(text, lead, trail) == [text |-> text, lead |-> lead, trail |-> trail]

\* _REGION_KEYS and _REGION_PATTERN: the keys, longest first, as literals.
REGION_KEYS == sorted_by_len_desc([i \in 1..Len(REGION_MAP) |-> REGION_MAP[i][1]])
REGION_PATTERN ==
    [i \in 1..Len(REGION_KEYS) |-> Alternative(REGION_KEYS[i], FALSE, FALSE)]

\* _REGION_MAP[key]
region_of(key) ==
    REGION_MAP[CHOOSE i \in 1..Len(REGION_MAP) : REGION_MAP[i][1] = key][2]

\* The builder giving "eric" a boundary on both sides, like "man".
build_indicator_regex_eric_whole_word(indicators, problematic_words) ==
    LET sorted_indicators == sorted_by_len_desc(indicators) IN
        [i \in 1..Len(sorted_indicators) |->
            IF sorted_indicators[i] \in problematic_words
            THEN Alternative(sorted_indicators[i], TRUE, TRUE)
            ELSE Alternative(sorted_indicators[i], FALSE, FALSE)]

\* The builder treating every indicator as a plain substring.
build_indicator_regex_no_boundaries(indicators, problematic_words) ==
    LET sorted_indicators == sorted_by_len_desc(indicators) IN
        [i \in 1..Len(sorted_indicators) |->
            Alternative(sorted_indicators[i], FALSE, FALSE)]

\* _build_indicator_regex: the indicators, longest first; "eric" with \b
\* before it only, the other problematic words with \b on both sides,
\* every other indicator as a plain literal.
build_indicator_regex(indicators, problematic_words) ==
    LET sorted_indicators == sorted_by_len_desc(indicators) IN
        [i \in 1..Len(sorted_indicators) |->
            IF sorted_indicators[i] = s_eric
            THEN Alternative(sorted_indicators[i], TRUE, FALSE)
            ELSE IF sorted_indicators[i] \in problematic_words
            THEN Alternative(sorted_indicators[i], TRUE, TRUE)
            ELSE Alternative(sorted_indicators[i], FALSE, FALSE)]

FEMALE_PATTERN == build_indicator_regex(FEMALE_INDICATORS, PROBLEMATIC_WORDS)
MALE_PATTERN == build_indicator_regex(MALE_INDICATORS, PROBLEMATIC_WORDS)

\* s[k] exists and is a word character.
IsWordChar(s, k) == k \in 1..Len(s) /\ s[k] \in WordChars

\* \b just before s[i]: exactly one of s[i-1], s[i] is a word character.
word_boundary(s, i) == IsWordChar(s, i - 1) # IsWordChar(s, i)

\* The alternative matches in s starting at position i.
matches_at(s, alt, i) ==
    /\ i + Len(alt.text) - 1 <= Len(s)
    /\ SubSeq(s, i, i + Len(alt.text) - 1) = alt.text
    /\ alt.lead => word_boundary(s, i)
    /\ alt.trail => word_boundary(s, i + Len(alt.text))

\* pattern.search(s): the text matched (match.group(0)), or None.
search(pattern, s) ==
    LET hits == {i \in 1..Len(s) :
                    \E k \in 1..Len(pattern) : matches_at(s, pattern[k], i)}
    IN  IF hits = {} THEN None
        ELSE LET i == CHOOSE h \in hits : \A g \in hits : h <= g
                 k == CHOOSE a \in 1..Len(pattern) :
                          /\ matches_at(s, pattern[a], i)
                          /\ \A b \in 1..(a - 1) : ~matches_at(s, pattern[b], i)
             IN  pattern[k].text

\* analyze_voice asking the male pattern before the female one.
analyze_voice_male_first(provider, voice) ==
    LET voice_lower == lower(voice)
        quality ==
            IF Contains(voice_lower, <<"n", "e", "u", "r", "a", "l">>) \/ Contains(voice_lower, <<"p", "r", "e", "m", "i", "u", "m">>)
               \/ Contains(voice_lower, <<"s", "t", "a", "n", "d", "a", "r", "d">>)
            THEN 3
            ELSE IF Contains(voice_lower, <<"b", "a", "s", "i", "c">>) \/ Contains(voice_lower, <<"l", "o", "w">>)
            THEN 1
            ELSE 2
        match == search(REGION_PATTERN, voice)
        region ==
            IF match # None THEN region_of(match)
            ELSE IF provider = s_chatterbox THEN <<"C", "h", "a", "t", "t", "e", "r", "b", "o", "x">>
            ELSE <<"G", "e", "n", "e", "r", "a", "l">>
        gender ==
            IF search(MALE_PATTERN, voice_lower) # None THEN "M"
            ELSE IF search(FEMALE_PATTERN, voice_lower) # None THEN "F"
            ELSE "U"
    IN  [quality |-> quality, region |-> region, gender |-> gender]

\* analyze_voice asking for the low-quality words before the high-quality ones.
analyze_voice_low_first(provider, voice) ==
    LET voice_lower == lower(voice)
        quality ==
            IF Contains(voice_lower, <<"b", "a", "s", "i", "c">>) \/ Contains(voice_lower, <<"l", "o", "w">>)
            THEN 1
            ELSE IF Contains(voice_lower, <<"n", "e", "u", "r", "a", "l">>) \/ Contains(voice_lower, <<"p", "r", "e", "m", "i", "u", "m">>)
                    \/ Contains(voice_lower, <<"s", "t", "a", "n", "d", "a", "r", "d">>)
            THEN 3
            ELSE 2
        match == search(REGION_PATTERN, voice)
        region ==
            IF match # None THEN region_of(match)
            ELSE IF provider = s_chatterbox THEN <<"C", "h", "a", "t", "t", "e", "r", "b", "o", "x">>
            ELSE <<"G", "e", "n", "e", "r", "a", "l">>
        gender ==
            IF search(FEMALE_PATTERN, voice_lower) # None THEN "F"
            ELSE IF search(MALE_PATTERN, voice_lower) # None THEN "M"
            ELSE "U"
    IN  [quality |-> quality, region |-> region, gender |-> gender]

\* analyze_voice(provider, voice) -> (quality, region, gender)
analyze_voice(provider, voice) ==
    LET voice_lower == lower(voice)
        quality ==
            IF Contains(voice_lower, <<"n", "e", "u", "r", "a", "l">>) \/ Contains(voice_lower, <<"p", "r", "e", "m", "i", "u", "m">>)
               \/ Contains(voice_lower, <<"s", "t", "a", "n", "d", "a", "r", "d">>)
            THEN 3
            ELSE IF Contains(voice_lower, <<"b", "a", "s", "i", "c">>) \/ Contains(voice_lower, <<"l", "o", "w">>)
            THEN 1
            ELSE 2
        match == search(REGION_PATTERN, voice)
        region ==
            IF match # None THEN region_of(match)
            ELSE IF provider = s_chatterbox THEN <<"C", "h", "a", "t", "t", "e", "r", "b", "o", "x">>
            ELSE <<"G", "e", "n", "e", "r", "a", "l">>
        gender ==
            IF search(FEMALE_PATTERN, voice_lower) # None THEN "F"
            ELSE IF search(MALE_PATTERN, voice_lower) # None THEN "M"
            ELSE "U"
    IN  [quality |-> quality, region |-> region, gender |-> gender]

---------------------------------------------------------------------------
(* Specification of the analyzer: one call of analyze_voice *)

\* Voice names are concatenations of at most MaxNameParts of these pieces.
MaxNameParts == 3

NamePieces ==
    { <<"e", "n", "-", "U", "S", "-">>,
      <<"I", "r", "i", "s", "h">>,
      <<"E", "r", "i", "c">>,
      <<"e", "r", "i", "c">>,
      <<"N", "e", "u", "r", "a", "l">>,
      <<"-", "n", "e", "u", "r", "a", "l">>,
      <<"v", "o", "i", "c", "e", "-">>,
      <<"-", "v", "o", "i", "c", "e">>,
      <<"g", "e", "n">>,
      <<"a", "m">>,
      <<"a", "n">>,
      <<"s", "u", "p", "e", "r">>,
      <<"m", "a", "n">>,
      <<"w", "o">>,
      <<"_">> }

VoiceNames ==
    { Flatten(p) : p \in UNION { [1..n -> NamePieces] : n \in 0..MaxNameParts } }

InitAnalyzer ==
    /\ analyze_args \in [provider : {s_chatterbox, s_edge_tts}, voice : VoiceNames]
    /\ analysis = NotCalled
    /\ ResolverIdle /\ ShortcutIdle /\ TablesInit /\ DispatchIdle
    /\ HookIdle /\ EngineIdle
    /\ ServerIdle
    /\ CacheIdle /\ RoutesIdle
    /\ StreamIdle /\ ProbeIdle /\ HttpIdle /\ BackendIdle /\ InfoIdle

AnalyzeVoice ==
    /\ analysis = NotCalled
    /\ analysis' = analyze_voice(analyze_args.provider, analyze_args.voice)
    /\ UNCHANGED <<analyze_args, other_than_analyzer>>

NextAnalyzer == AnalyzeVoice

SpecAnalyzer == InitAnalyzer /\ [][NextAnalyzer]_vars

---------------------------------------------------------------------------
(* Claims about the analyzer (checked under SpecAnalyzer) *)

AnalyzeCalled == analysis # NotCalled

\* The markers of the region map that occur in the voice name as written.
MarkersIn(voice) ==
    {k \in 1..Len(REGION_KEYS) : Occurs(voice, REGION_KEYS[k])}

\* C18: the region is decided on the name as written: when markers occur
\* in it, the region is that of the occurring marker that comes first in
\* the configured order of markers; when none occurs it is "Chatterbox"
\* for provider "chatterbox" and "General" otherwise.
C18_RegionByMarkerPriority ==
    AnalyzeCalled =>
        LET found == MarkersIn(analyze_args.voice) IN
            IF found # {}
            THEN analysis.region =
                     region_of(REGION_KEYS[CHOOSE k \in found : \A j \in found : k <= j])
            ELSE analysis.region =
                     IF analyze_args.provider = s_chatterbox
                     THEN <<"C", "h", "a", "t", "t", "e", "r", "b", "o", "x">> ELSE <<"G", "e", "n", "e", "r", "a", "l">>

\* The lowercased name holds a female indicator, or a male indicator
\* other than "eric" and "man".
OtherIndicator(l) ==
    \/ \E f \in {<<"e", "m", "i", "l", "y">>,
              <<"j", "e", "n", "n", "y">>,
              <<"a", "r", "i", "a">>,
              <<"d", "a", "v", "i", "s">>,
              <<"j", "a", "n", "e">>,
              <<"s", "a", "r", "a", "h">>,
              <<"a", "m", "y">>,
              <<"e", "m", "m", "a">>,
              <<"f", "e", "m", "a", "l", "e">>,
              <<"w", "o", "m", "a", "n">>,
              <<"l", "i", "b", "b", "y">>,
              <<"c", "l", "a", "r", "a">>,
              <<"n", "a", "t", "a", "s", "h", "a">>} : Occurs(l, f)
    \/ \E m \in {<<"g", "u", "y">>,
              <<"t", "o", "n", "y">>,
              <<"b", "r", "a", "n", "d", "o", "n">>,
              <<"c", "h", "r", "i", "s", "t", "o", "p", "h", "e", "r">>,
              <<"m", "a", "l", "e">>,
              <<"b", "o", "y">>} : Occurs(l, m)

\* The places where the text occurs in the lowercased name.
OccurrencesOf(l, text) ==
    {i \in 1..(Len(l) - Len(text) + 1) : \A k \in 1..Len(text) : l[i + k - 1] = text[k]}

\* "eric" occurs with no word character just before it.
EricAtWordStart(l) ==
    \E i \in OccurrencesOf(l, s_eric) : i = 1 \/ l[i - 1] \notin WordChars

\* "man" occurs with no word character just before it nor just after it.
ManAsWholeWord(l) ==
    \E i \in OccurrencesOf(l, s_man) :
        /\ i = 1 \/ l[i - 1] \notin WordChars
        /\ i + 3 > Len(l) \/ l[i + 3] \notin WordChars

\* C19: with no other indicator in the name, the gender is "M" exactly
\* when "eric" occurs in the lowercased name with no word character just
\* before it, whatever follows it, and "U" otherwise: "voice-eric-neural"
\* and "en-US-EricNeural" give "M", "generic-voice" and "american" give "U".
C19_EricNeedsLeadingBoundaryOnly ==
    LET l == lower(analyze_args.voice) IN
        (AnalyzeCalled /\ ~OtherIndicator(l) /\ ~ManAsWholeWord(l)) =>
            /\ analysis.gender = IF EricAtWordStart(l) THEN "M" ELSE "U"
            /\ analyze_args.voice \in {<<"v", "o", "i", "c", "e", "-", "e", "r", "i", "c", "-", "n", "e", "u", "r", "a", "l">>,
                                        <<"e", "n", "-", "U", "S", "-", "E", "r", "i", "c", "N", "e", "u", "r", "a", "l">>} =>
                   analysis.gender = "M"
            /\ analyze_args.voice \in {<<"g", "e", "n", "e", "r", "i", "c", "-", "v", "o", "i", "c", "e">>, <<"a", "m", "e", "r", "i", "c", "a", "n">>} =>
                   analysis.gender = "U"

\* C19 witness: "en-US-EricNeural" was analyzed ("eric" after "-", a
\* letter right after it) and the gender is "M".
C19_Witness ==
    /\ analyze_args.voice = <<"e", "n", "-", "U", "S", "-", "E", "r", "i", "c", "N", "e", "u", "r", "a", "l">>
    /\ AnalyzeCalled
    /\ analysis.gender = "M"

\* C20: with no other indicator in the name, the gender is "M" exactly
\* when "man" occurs in the lowercased name as a whole word (no word
\* character just before it nor just after it) and "U" otherwise:
\* "superman-voice" gives "U".
C20_ManNeedsWholeWord ==
    LET l == lower(analyze_args.voice) IN
        (AnalyzeCalled /\ ~OtherIndicator(l) /\ ~EricAtWordStart(l)) =>
            /\ analysis.gender = IF ManAsWholeWord(l) THEN "M" ELSE "U"
            /\ analyze_args.voice = <<"s", "u", "p", "e", "r", "m", "a", "n", "-", "v", "o", "i", "c", "e">> => analysis.gender = "U"

\* C20 witness: "superman-voice" was analyzed ("man" right after a letter)
\* and the gender is "U".
C20_Witness ==
    /\ analyze_args.voice = <<"s", "u", "p", "e", "r", "m", "a", "n", "-", "v", "o", "i", "c", "e">>
    /\ AnalyzeCalled
    /\ analysis.gender = "U"


---------------------------------------------------------------------------
(* Specification of the analyzer on names made of indicator and quality    *)
(* words: one call of analyze_voice                                        *)

\* Voice names are concatenations of at most MaxWordParts of these pieces.
MaxWordParts == 2

WordPieces ==
    { <<"e", "n", "-", "U", "S", "-", "J", "e", "n", "n", "y">>,
      <<"j", "e", "n", "n", "y">>,
      <<"N", "e", "u", "r", "a", "l">>,
      <<"n", "e", "u", "r", "a", "l">>,
      <<"g", "u", "y">>,
      <<"t", "o", "n", "y">>,
      <<"f", "e">>,
      <<"m", "a", "l", "e">>,
      <<"w", "o">>,
      <<"m", "a", "n">>,
      <<"e", "r", "i", "c">>,
      <<"-">>,
      <<"b", "a", "s", "i", "c">>,
      <<"l", "o", "w">>,
      <<"p", "r", "e", "m", "i", "u", "m">>,
      <<"S", "t", "a", "n", "d", "a", "r", "d">>,
      <<"x">> }

WordNames ==
    { Flatten(p) : p \in UNION { [1..n -> WordPieces] : n \in 0..MaxWordParts } }

InitAnalyzerWords ==
    /\ analyze_args \in [provider : {s_chatterbox, s_edge_tts}, voice : WordNames]
    /\ analysis = NotCalled
    /\ ResolverIdle /\ ShortcutIdle /\ TablesInit /\ DispatchIdle
    /\ HookIdle /\ EngineIdle
    /\ ServerIdle
    /\ CacheIdle /\ RoutesIdle
    /\ StreamIdle /\ ProbeIdle /\ HttpIdle /\ BackendIdle /\ InfoIdle

SpecAnalyzerWords == InitAnalyzerWords /\ [][NextAnalyzer]_vars

---------------------------------------------------------------------------
(* Claims about gender precedence and quality (checked under               *)
(* SpecAnalyzerWords)                                                      *)

\* One indicator, looked for on its own in the lowercased name: "eric"
\* at a word start, "man" as a whole word, any other as a substring.
IndicatorFound(indicator, l) ==
    IF indicator = s_eric THEN EricAtWordStart(l)
    ELSE IF indicator = s_man THEN ManAsWholeWord(l)
    ELSE Occurs(l, indicator)

\* The gender found by scanning the female list, then the male list.
ScanGender(l) ==
    IF \E i \in 1..Len(FEMALE_INDICATORS) : IndicatorFound(FEMALE_INDICATORS[i], l)
    THEN "F"
    ELSE IF \E i \in 1..Len(MALE_INDICATORS) : IndicatorFound(MALE_INDICATORS[i], l)
    THEN "M"
    ELSE "U"

\* C21: the gender is "F" when a female indicator matches the lowercased
\* name, even if a male indicator matches too; otherwise "M" when a male
\* indicator matches; otherwise "U".  Indicators other than "man" and
\* "eric" match as substrings, so the combined patterns answer as a scan of
\* the two lists does; "en-US-JennyNeural" gives (3, "American", "F").
C21_FemaleBeforeMale ==
    AnalyzeCalled =>
        /\ analysis.gender = ScanGender(lower(analyze_args.voice))
        /\ analyze_args.voice = <<"e", "n", "-", "U", "S", "-", "J", "e", "n", "n", "y", "N", "e", "u", "r", "a", "l">> =>
               analysis = [quality |-> 3, region |-> <<"A", "m", "e", "r", "i", "c", "a", "n">>, gender |-> "F"]

\* C21 witness: a name holding the female indicator "jenny" and the male
\* indicator "guy" was analyzed and the gender is "F".
C21_Witness ==
    /\ AnalyzeCalled
    /\ Occurs(lower(analyze_args.voice), <<"j", "e", "n", "n", "y">>)
    /\ Occurs(lower(analyze_args.voice), <<"g", "u", "y">>)
    /\ analysis.gender = "F"

\* The quality the lowercased name alone decides.
QualityOf(l) ==
    IF Occurs(l, <<"n", "e", "u", "r", "a", "l">>) \/ Occurs(l, <<"p", "r", "e", "m", "i", "u", "m">>) \/ Occurs(l, <<"s", "t", "a", "n", "d", "a", "r", "d">>)
    THEN 3
    ELSE IF Occurs(l, <<"b", "a", "s", "i", "c">>) \/ Occurs(l, <<"l", "o", "w">>) THEN 1
    ELSE 2

\* C22: the quality is 3 when the lowercased name contains "neural",
\* "premium" or "standard", otherwise 1 when it contains "basic" or "low",
\* otherwise 2; it is in {1, 2, 3} and the same for every provider.
C22_QualityFromLowercasedName ==
    AnalyzeCalled =>
        /\ analysis.quality = QualityOf(lower(analyze_args.voice))
        /\ analysis.quality \in {1, 2, 3}

\* C22 witness: a name holding a high-quality word in capitals and a
\* low-quality word was analyzed and the quality is 3.
C22_Witness ==
    /\ AnalyzeCalled
    /\ analyze_args.voice = <<"b", "a", "s", "i", "c", "S", "t", "a", "n", "d", "a", "r", "d">>
    /\ analysis.quality = 3

---------------------------------------------------------------------------
(* server.py: the route table create_app builds, the endpoints run_server  *)
(* prints, and the way a request is answered.  The router is aiohttp's:    *)
(* it hands the request to the first route whose method and path match;    *)
(* when only the path matches some route the answer is 405 (method not     *)
(* allowed), when nothing matches it is 404 (not found).  The middleware   *)
(* runs before whatever the router chose.                                  *)

Route(method, path, handler) == [method |-> method, path |-> path, handler |-> handler]

\* The path pattern "/{path:.*}", which matches every path.
AnyPath == <<"/", "{", "p", "a", "t", "h", ":", ".", "*", "}">>

\* create_app: the routes, in the order they are added.
create_app ==
    << Route("OPTIONS", AnyPath, "handle_options"),
       Route("GET", <<"/", "h", "e", "a", "l", "t", "h">>, "handle_health"),
       Route("GET", <<"/">>, "handle_health"),
       Route("POST", <<"/", "s", "p", "e", "a", "k">>, "handle_speak"),
       Route("POST", <<"/", "s", "y", "n", "t", "h", "e", "s", "i", "z", "e">>, "handle_synthesize"),
       Route("POST", <<"/", "r", "e", "l", "o", "a", "d">>, "handle_reload") >>

\* The endpoints run_server prints before it starts serving.
ADVERTISED ==
    { <<"POST", <<"/", "s", "p", "e", "a", "k">>>>,
      <<"POST", <<"/", "s", "y", "n", "t", "h", "e", "s", "i", "z", "e">>>>,
      <<"GET", <<"/", "p", "r", "o", "v", "i", "d", "e", "r", "s">>>>,
      <<"GET", <<"/", "h", "e", "a", "l", "t", "h">>>> }

\* The paths auth_middleware lets through without a token.
PUBLIC_PATHS == {<<"/">>, <<"/", "h", "e", "a", "l", "t", "h">>, <<"/", "p", "r", "o", "v", "i", "d", "e", "r", "s">>}

PathMatches(route, path) == route.path = AnyPath \/ route.path = path

\* UrlDispatcher.resolve: the handler of the first matching route, or the
\* status of the error the router answers with.
resolve(table, method, path) ==
    LET full == {i \in 1..Len(table) :
                    table[i].method = method /\ PathMatches(table[i], path)}
    IN  IF full # {}
        THEN [status |-> 200,
              handler |-> table[CHOOSE i \in full : \A j \in full : i <= j].handler]
        ELSE IF \E i \in 1..Len(table) : PathMatches(table[i], path)
        THEN [status |-> 405, handler |-> "None"]
        ELSE [status |-> 404, handler |-> "None"]

\* auth_middleware followed by the handler the router chose.  A handler
\* that runs is recorded with status 200 whatever it then answers.
answer(table, req) ==
    IF req.path \in PUBLIC_PATHS \/ req.method = "OPTIONS"
    THEN resolve(table, req.method, req.path)
    ELSE IF req.auth = "missing" THEN [status |-> 401, handler |-> "None"]
    ELSE IF req.auth = "wrong" THEN [status |-> 403, handler |-> "None"]
    ELSE resolve(table, req.method, req.path)

\* The requests the server is tried with.
MaxServed == 2

HttpMethods == {"GET", "POST", "OPTIONS"}

HttpPaths ==
    {<<"/">>, <<"/", "h", "e", "a", "l", "t", "h">>, <<"/", "s", "p", "e", "a", "k">>, <<"/", "s", "y", "n", "t", "h", "e", "s", "i", "z", "e">>, <<"/", "p", "r", "o", "v", "i", "d", "e", "r", "s">>, <<"/", "r", "e", "l", "o", "a", "d">>, <<"/", "v", "o", "i", "c", "e", "s">>}

HttpRequests ==
    [method : HttpMethods, path : HttpPaths, auth : {"missing", "wrong", "valid"}]

InitRoutes ==
    /\ RoutesIdle
    /\ ResolverIdle /\ ShortcutIdle /\ TablesInit /\ DispatchIdle
    /\ HookIdle /\ EngineIdle
    /\ CacheIdle /\ ServerIdle
    /\ StreamIdle /\ ProbeIdle /\ HttpIdle /\ BackendIdle /\ InfoIdle
    /\ AnalyzerIdle /\ ServerIdle

\* run_server, line 483: app = create_app()
CreateApp ==
    /\ router = <<>>
    /\ router' = create_app
    /\ UNCHANGED <<advertised, http_request, http_response, served,
                   other_than_routes>>

\* run_server, lines 486-491: the startup banner
AdvertiseEndpoints ==
    /\ router # <<>>
    /\ advertised = {}
    /\ advertised' = ADVERTISED
    /\ UNCHANGED <<router, http_request, http_response, served,
                   other_than_routes>>

\* web.run_app is serving: one request is received and answered.
HandleRequest ==
    /\ advertised # {}
    /\ served < MaxServed
    /\ \E req \in HttpRequests :
        /\ http_request' = req
        /\ http_response' = answer(router, req)
    /\ served' = served + 1
    /\ UNCHANGED <<router, advertised, other_than_routes>>

NextRoutes == CreateApp \/ AdvertiseEndpoints \/ HandleRequest

SpecRoutes == InitRoutes /\ [][NextRoutes]_vars

---------------------------------------------------------------------------
(* Claims about the routes (checked under SpecRoutes) *)

\* C23: every endpoint the server prints at startup (POST /speak,
\* POST /synthesize, GET /providers, GET /health) is a route create_app
\* registered, so an authorized request to it is answered by its handler
\* and not by a not-found or method-not-allowed response.
C23_AdvertisedEndpointsAreRouted ==
    /\ \A e \in advertised : resolve(router, e[1], e[2]).handler # "None"
    /\ (/\ http_response # NotCalled
        /\ <<http_request.method, http_request.path>> \in advertised
        /\ http_request.auth = "valid")
       => http_response.handler # "None"

---------------------------------------------------------------------------
(* server.py: handle_synthesize and the two thread pools it offloads to.   *)
(* The event loop is single-threaded, so the handler's code between two    *)
(* awaits is one step; a job submitted to a pool waits in the pool's queue *)
(* until one of the pool's workers is free.  The end of a job and the      *)
(* resumption of the handler awaiting it are taken as one step.            *)

\* The number of /synthesize requests.
MaxSynthesize == 5

SynthesizeRequests == 1..MaxSynthesize

\* IO_EXECUTOR = ThreadPoolExecutor(max_workers=4, ...)
IO_MAX_WORKERS == 4

\* The size of the event loop's default executor.  asyncio sizes it by the
\* machine (min(32, cpu_count + 4)); it is scaled down here so that a few
\* requests fill it.
DefaultMaxWorkers == 2

max_workers(e) == IF e = "io" THEN IO_MAX_WORKERS ELSE DefaultMaxWorkers

\* loop.run_in_executor(None, lambda: on_save(...))
SynthesisExecutor == "default"

\* The read-and-encode job handed to the default executor as well.
EncodeExecutor_default == "default"

\* loop.run_in_executor(IO_EXECUTOR, _read_and_encode_audio, tmp_path)
EncodeExecutor == "io"

Job(kind, r) == [kind |-> kind, req |-> r]

Jobs == [kind : {"synthesis", "encode"}, req : SynthesizeRequests]

\* A worker of some pool is running the job; the pool that worker is of.
IsRunning(job) == \E e \in {"default", "io"} : job \in executors[e].running
PoolOf(job) == CHOOSE e \in {"default", "io"} : job \in executors[e].running

\* executor.submit(job)
submit(pools, e, job) == [pools EXCEPT ![e].queue = Append(@, job)]

\* A running job has ended and its worker is free again.
release(pools, e, job) == [pools EXCEPT ![e].running = @ \ {job}]

\* A request whose handler has not started.
NewSynthesize ==
    [pc |-> "new", tmp_path |-> 0, read |-> 0, unlinked |-> 0, status |-> 0]

\* tempfile.NamedTemporaryFile(..., delete=False): a name no file on disk
\* bears; the least such name is taken, so the name of a deleted file is
\* handed out again.
FreshName(dir) ==
    CHOOSE n \in 1..(MaxSynthesize + 1) :
        /\ \A f \in dir : f.name # n
        /\ \A k \in 1..(n - 1) : \E f \in dir : f.name = k

\* The owner of the file a path names (0 when no file bears the name).
OwnerOf(dir, path) ==
    IF \E f \in dir : f.name = path
    THEN (CHOOSE f \in dir : f.name = path).owner
    ELSE 0

\* The finally block left out.
cleanup_never(dir, path) == dir

\* finally: if os.path.exists(tmp_path): os.unlink(tmp_path)
cleanup(dir, path) == {f \in dir : f.name # path}

InitServer ==
    /\ executors = [e \in {"default", "io"} |-> [queue |-> <<>>, running |-> {}]]
    /\ tmp_dir = {}
    /\ synth_req = [r \in SynthesizeRequests |-> NewSynthesize]
    /\ ResolverIdle /\ ShortcutIdle /\ TablesInit /\ DispatchIdle
    /\ EngineIdle
    /\ CacheIdle /\ HookIdle
    /\ StreamIdle /\ ProbeIdle /\ HttpIdle /\ BackendIdle /\ InfoIdle
    /\ AnalyzerIdle /\ RoutesIdle

\* handle_synthesize up to its first await on a pool (lines 351-381): the
\* temp file is created and on_save is submitted.  Requests are numbered
\* in the order they arrive.
HandleSynthesize(r) ==
    /\ synth_req[r].pc = "new"
    /\ \A q \in 1..(r - 1) : synth_req[q].pc # "new"
    /\ LET name == FreshName(tmp_dir) IN
        /\ tmp_dir' = tmp_dir \cup {[name |-> name, owner |-> r]}
        /\ synth_req' = [synth_req EXCEPT ![r].pc = "await_on_save",
                                          ![r].tmp_path = name]
    /\ executors' = submit(executors, SynthesisExecutor, Job("synthesis", r))
    /\ UNCHANGED other_than_server

\* A free worker of a pool takes the job at the head of the pool's queue.
WorkerTakesJob(e) ==
    /\ executors[e].queue # <<>>
    /\ Cardinality(executors[e].running) < max_workers(e)
    /\ executors' = [executors EXCEPT ![e].queue = Tail(@),
                                      ![e].running = @ \cup {Head(executors[e].queue)}]
    /\ UNCHANGED <<tmp_dir, synth_req, other_than_server>>

\* on_save returns and the handler goes on to line 386: the read-and-encode
\* job is submitted.
OnSaveReturns(job) ==
    /\ IsRunning(job)
    /\ job.kind = "synthesis"
    /\ executors' = submit(release(executors, PoolOf(job), job), EncodeExecutor,
                           Job("encode", job.req))
    /\ synth_req' = [synth_req EXCEPT ![job.req].pc = "await_encode"]
    /\ UNCHANGED <<tmp_dir, other_than_server>>

\* on_save raises: the finally block runs and the except clause answers
\* with status 500.
OnSaveRaises(job) ==
    /\ IsRunning(job)
    /\ job.kind = "synthesis"
    /\ executors' = release(executors, PoolOf(job), job)
    /\ LET path == synth_req[job.req].tmp_path IN
        /\ tmp_dir' = cleanup(tmp_dir, path)
        /\ synth_req' = [synth_req EXCEPT
               ![job.req].pc = "responded",
               ![job.req].tmp_path = 0,
               ![job.req].unlinked = OwnerOf(tmp_dir, path),
               ![job.req].status = 500]
    /\ UNCHANGED other_than_server

\* _read_and_encode_audio ends, having read the file or raised (OSError):
\* the finally block runs and the handler answers, 200 or 500.
ReadAndEncodeEnds(job) ==
    /\ IsRunning(job)
    /\ job.kind = "encode"
    /\ executors' = release(executors, PoolOf(job), job)
    /\ LET path == synth_req[job.req].tmp_path IN
        /\ tmp_dir' = cleanup(tmp_dir, path)
        /\ \E ok \in BOOLEAN :
               synth_req' = [synth_req EXCEPT
                   ![job.req].pc = "responded",
                   ![job.req].tmp_path = 0,
                   ![job.req].read = OwnerOf(tmp_dir, path),
                   ![job.req].unlinked = OwnerOf(tmp_dir, path),
                   ![job.req].status = IF ok THEN 200 ELSE 500]
    /\ UNCHANGED other_than_server

NextServer ==
    \/ \E r \in SynthesizeRequests : HandleSynthesize(r)
    \/ \E e \in {"default", "io"} : WorkerTakesJob(e)
    \/ \E job \in Jobs : OnSaveReturns(job)
    \/ \E job \in Jobs : OnSaveRaises(job)
    \/ \E job \in Jobs : ReadAndEncodeEnds(job)

SpecServer == InitServer /\ [][NextServer]_vars

---------------------------------------------------------------------------
(* Claims about the HTTP service (checked under SpecServer) *)

\* The jobs of a kind that are running, on whichever pool.
RunningOf(kind) ==
    {job \in executors["default"].running \cup executors["io"].running :
        job.kind = kind}

\* A job of the kind is waiting at the head of some pool's queue.
WaitingFirst(kind) ==
    \E e \in {"default", "io"} :
        executors[e].queue # <<>> /\ Head(executors[e].queue).kind = kind

\* C24: synthesis jobs and read-and-encode jobs run on separate bounded
\* pools: only synthesis jobs are queued on or run by the default pool,
\* only encode jobs by the I/O pool, neither pool runs more jobs than it
\* has workers, and a waiting job can start whenever fewer jobs of its own
\* kind are running than its pool has workers, however many jobs of the
\* other kind are running.
C24_SeparatePools ==
    /\ \A job \in executors["default"].running : job.kind = "synthesis"
    /\ \A i \in 1..Len(executors["default"].queue) :
           executors["default"].queue[i].kind = "synthesis"
    /\ \A job \in executors["io"].running : job.kind = "encode"
    /\ \A i \in 1..Len(executors["io"].queue) :
           executors["io"].queue[i].kind = "encode"
    /\ \A e \in {"default", "io"} :
           Cardinality(executors[e].running) <= max_workers(e)
    /\ (WaitingFirst("synthesis")
        /\ Cardinality(RunningOf("synthesis")) < DefaultMaxWorkers)
       => ENABLED WorkerTakesJob("default")
    /\ (WaitingFirst("encode")
        /\ Cardinality(RunningOf("encode")) < IO_MAX_WORKERS)
       => ENABLED WorkerTakesJob("io")

\* C24 witness: every I/O worker is busy encoding while a synthesis job
\* runs on the default pool.
C24_Witness ==
    /\ Cardinality(executors["io"].running) = IO_MAX_WORKERS
    /\ \E job \in executors["default"].running : job.kind = "synthesis"

InFlight(r) == synth_req[r].pc \in {"await_on_save", "await_encode"}

\* C30: each request in flight has a temp file of its own, no two requests
\* in flight share one; once a request is answered (after synthesis
\* succeeded and the file was encoded, after synthesis failed, or after
\* read-and-encode failed) its file is gone; and the file a request read
\* or deleted is always the one it created.
C30_TempFilePerRequest ==
    \A r \in SynthesizeRequests :
        /\ InFlight(r) =>
               /\ [name |-> synth_req[r].tmp_path, owner |-> r] \in tmp_dir
               /\ \A q \in SynthesizeRequests \ {r} :
                      InFlight(q) => synth_req[q].tmp_path # synth_req[r].tmp_path
        /\ synth_req[r].pc = "responded" =>
               /\ \A f \in tmp_dir : f.owner # r
               /\ synth_req[r].unlinked = r
        /\ synth_req[r].read \in {0, r}
        /\ synth_req[r].unlinked \in {0, r}

\* C30 witness: a request whose synthesis failed and a request whose
\* read-and-encode failed have been answered, each having deleted its
\* file, while a later request is in flight under a name handed out again.
C30_Witness ==
    \E r, q, p \in SynthesizeRequests :
        /\ synth_req[r].pc = "responded" /\ synth_req[r].status = 500
        /\ synth_req[r].read = 0 /\ synth_req[r].unlinked = r
        /\ synth_req[q].pc = "responded" /\ synth_req[q].status = 500
        /\ synth_req[q].read = q /\ synth_req[q].unlinked = q
        /\ InFlight(p) /\ synth_req[p].tmp_path < p

---------------------------------------------------------------------------
(* server.py: how handle_speak and handle_synthesize turn the "provider"   *)
(* field of a request body into the leading "@" token of the options they  *)
(* hand to on_speak / on_save, and what parse_provider_shortcuts makes of  *)
(* those options.  app_hooks.py is not among the sources; the hook is      *)
(* taken to parse the options it is given with parse_provider_shortcuts.   *)

\* The arguments a handler passes to its hook.
HookCall(text, options) == [built |-> TRUE, text |-> text, options |-> options]

\* Lines 280-285 and 361-366: without a provider the text is passed as
\* text; with one, the options are (shortcut, text), the shortcut being the
\* provider with "@" put before it unless it already starts with "@".
build_options(text, provider) ==
    IF provider = None \/ provider = EmptyStr
    THEN HookCall(text, <<>>)
    ELSE LET shortcut == IF StartsWith(provider, <<"@">>) THEN provider
                         ELSE <<"@">> \o provider
         IN  HookCall(None, <<shortcut, text>>)

\* The "provider" values of the request bodies tried: absent, empty, every
\* registry key, every alias, and some others.
BodyProviders ==
    {None, EmptyStr, <<"n", "o", "p", "e">>, <<"@", "e", "d", "g", "e">>, <<"@", "e", "d", "g", "e", "_", "t", "t", "s">>}
        \cup DictKeys(PROVIDERS_REGISTRY) \cup DictKeys(PROVIDER_SHORTCUTS)

BodyTexts == {<<"h", "e", "l", "l", "o">>, <<"@", "h", "u", "b">>, <<"h", "i">>}

Bodies ==
    [endpoint : {"/speak", "/synthesize"}, text : BodyTexts, provider : BodyProviders]

InitHook ==
    /\ api_body \in Bodies
    /\ hook_call = NoHookCall
    /\ ResolverIdle /\ ShortcutIdle /\ TablesInit /\ DispatchIdle
    /\ CacheIdle /\ EngineIdle
    /\ StreamIdle /\ ProbeIdle /\ HttpIdle /\ BackendIdle /\ InfoIdle
    /\ AnalyzerIdle /\ RoutesIdle /\ ServerIdle

\* handle_speak, lines 279-297
HandleSpeak ==
    /\ api_body.endpoint = "/speak"
    /\ ~hook_call.built
    /\ hook_call' = build_options(api_body.text, api_body.provider)
    /\ UNCHANGED <<api_body, other_than_hook>>

\* handle_synthesize, lines 360-381
HandleSynthesizeOptions ==
    /\ api_body.endpoint = "/synthesize"
    /\ ~hook_call.built
    /\ hook_call' = build_options(api_body.text, api_body.provider)
    /\ UNCHANGED <<api_body, other_than_hook>>

\* The hook parses the options it was given.
HookParsesOptions ==
    /\ hook_call.built
    /\ shortcut_out = NotCalled
    /\ args' = hook_call.options
    /\ shortcut_out' = parse_provider_shortcuts(hook_call.options)
    /\ UNCHANGED <<api_body, hook_call, resolver_vars, tables, dispatch_vars,
                   cache_vars, stream_vars, probe_vars, http_vars, backend_vars,
                   info_vars, analyzer_vars, routes_vars, server_vars,
                   engine_vars>>

NextHook == HandleSpeak \/ HandleSynthesizeOptions \/ HookParsesOptions

SpecHook == InitHook /\ [][NextHook]_vars

---------------------------------------------------------------------------
(* Claims about the provider field (checked under SpecHook) *)

\* C26: for every key k of PROVIDERS_REGISTRY, a /speak or /synthesize
\* request with provider k is handed on with the leading token "@" + k,
\* and parse_provider_shortcuts answers k for it, not the token itself as
\* the marker of an invalid shortcut.
C26_RegistryKeyRoundTrip ==
    (api_body.provider \in DictKeys(providers_registry)) =>
        /\ hook_call.built => hook_call.options[1] = <<"@">> \o api_body.provider
        /\ shortcut_out # NotCalled => shortcut_out.provider = api_body.provider

---------------------------------------------------------------------------
(* api.get_engine and hooks/utils.get_engine: return get_tts_engine(), and *)
(* when it raises RuntimeError (no engine yet) return                      *)
(* initialize_tts_engine(PROVIDERS_REGISTRY).  core.py is not among the    *)
(* sources: get_tts_engine is taken to return the module-level engine or   *)
(* raise RuntimeError without one, and initialize_tts_engine to construct  *)
(* an engine, store it as the module-level engine and return it.  Neither  *)
(* get_engine takes a lock.                                                *)

\* The number of get_engine calls one thread makes.
MaxEngineCalls == 2

InitEngine ==
    /\ EngineIdle
    /\ ResolverIdle /\ ShortcutIdle /\ TablesInit /\ DispatchIdle /\ CacheIdle
    /\ StreamIdle /\ ProbeIdle /\ HttpIdle /\ BackendIdle /\ InfoIdle
    /\ AnalyzerIdle /\ RoutesIdle /\ ServerIdle /\ HookIdle

\* get_engine, the try block: get_tts_engine() returns the engine, or
\* raises RuntimeError, which the except clause catches.
GetTtsEngine(t) ==
    /\ engine_thread[t].pc = "idle"
    /\ engine_thread[t].calls < MaxEngineCalls
    /\ engine_thread' = [engine_thread EXCEPT
           ![t].pc = IF tts_engine # 0 THEN "return" ELSE "except",
           ![t].got = tts_engine,
           ![t].calls = @ + 1]
    /\ UNCHANGED <<tts_engine, engines_made, handed_out, other_than_engine>>

\* get_engine, the except clause: initialize_tts_engine(PROVIDERS_REGISTRY)
InitializeTtsEngine(t) ==
    /\ engine_thread[t].pc = "except"
    /\ engines_made' = engines_made + 1
    /\ tts_engine' = engines_made + 1
    /\ engine_thread' = [engine_thread EXCEPT ![t].pc = "return",
                                              ![t].got = engines_made + 1]
    /\ UNCHANGED <<handed_out, other_than_engine>>

\* get_engine returns the engine to its caller.
ReturnEngine(t) ==
    /\ engine_thread[t].pc = "return"
    /\ handed_out' = handed_out \cup {engine_thread[t].got}
    /\ engine_thread' = [engine_thread EXCEPT ![t].pc = "idle"]
    /\ UNCHANGED <<tts_engine, engines_made, other_than_engine>>

NextEngine ==
    \/ \E t \in EngineThreads : GetTtsEngine(t)
    \/ \E t \in EngineThreads : InitializeTtsEngine(t)
    \/ \E t \in EngineThreads : ReturnEngine(t)

SpecEngine == InitEngine /\ [][NextEngine]_vars

---------------------------------------------------------------------------
(* Claims about the engine singleton (checked under SpecEngine) *)

\* C28: however the threads' get_engine calls interleave,
\* initialize_tts_engine runs at most once, every call returns the same
\* engine, and the module-level engine is never replaced by another one
\* after an engine was handed out.
C28_EngineInitializedOnce ==
    /\ engines_made <= 1
    /\ Cardinality(handed_out) <= 1
    /\ handed_out # {} => tts_engine \in handed_out
=============================================================================
